---- MODULE Spec2Model ----
(***************************************************************************)
(* Model of the pasifika-database scripts:                                 *)
(*   - AirtableToBaseRow.export_table_data (airtable-to-baserow.py), the   *)
(*     paginated fetch of one table, as a state machine with one step per  *)
(*     HTTP exchange;                                                      *)
(*   - create-clean-film-islands.py, the name normaliser and the feature   *)
(*     filter, as operators applied to inputs drawn in Init.               *)
(*   - the export and migration drivers of airtable-to-baserow.py;         *)
(*   - extract-real-islands.py, filter-major-islands.py,                   *)
(*     create-film-islands.py and create-small-islands.py, each as         *)
(*     operators applied to inputs drawn in Init.                          *)
(* The specifications share the variables: Spec (the fetch), SpecFilter    *)
(* (a run of the filter and a run on its output), SpecNormalize and        *)
(* SpecVariations (one call of a normalize_island_name), SpecExport,       *)
(* SpecExtract, SpecMajor, SpecFilmIslands and SpecSimplify; each leaves   *)
(* the other parts idle.                                                   *)
(***************************************************************************)
EXTENDS Integers, Sequences, FiniteSets, TLC

VARIABLES
    pc,           \* position inside export_table_data
    table,        \* table_name of the current invocation
    all_records,  \* local all_records
    offset,       \* local offset
    page_count,   \* local page_count
    log,          \* the HTTP exchanges of the current invocation, in order
    written,      \* the files the current invocation has written, in order
    result,       \* the value the invocation returned
    features,     \* the feature collection a geo script reads
    films,        \* the 'island' values of the film records
    fpc,          \* position of the filter run
    out_file,     \* the features the script wrote to its output file
    rerun_file,   \* the features written by a run on out_file
    islands_readable,  \* major-pacific-islands.geojson exists and parses
    films_readable,    \* nodegoat-film-data.json exists and parses
    raw_name,     \* the argument of normalize_island_name
    normalized,   \* its result
    npc,          \* position of the normalize_island_name call
    apc,          \* position of the run of a script that talks to Airtable
    client,       \* the class constructed: AirtableExplorer or AirtableToBaseRow
    api_key,      \* os.getenv('AIRTABLE_API_KEY')
    bases,        \* the bases the account holds, with their tables
    base_idx,     \* index of the base a loop of export_all_data is at
    table_idx,    \* index of the table the inner loop is at
    total_tables, \* total_tables of lines 188-193
    base_summary, \* base_summary['tables'] of the base being processed
    export_summary,  \* export_summary
    file_writes,  \* names of the files written during the run, in order
    fetches,      \* the export_table_data calls of the run, in order
    http_requests,  \* HTTP requests issued outside the current table fetch
    schema_log,   \* the export_base_schema calls of export_all_data, in order
    entry_point,  \* the method called on the migrator: export_all_data or run_full_migration
    steps,        \* the steps of run_full_migration that have returned, with their values
    migration_result, \* what run_full_migration returned
    region_calls, \* the features get_island_region was called with, in order
    coords,       \* the argument of simplify_coordinates
    simplified,   \* its result
    spc           \* position of the simplify_coordinates call

fetchVars == <<pc, table, all_records, offset, page_count, log, written, result>>

filterVars == <<features, films, fpc, out_file, rerun_file, islands_readable, films_readable>>

normVars == <<raw_name, normalized, npc>>

exportVars == <<apc, client, api_key, bases, base_idx, table_idx, total_tables,
                base_summary, export_summary, file_writes, fetches, http_requests,
                schema_log, entry_point, steps, migration_result>>

scriptVars == <<region_calls, coords, simplified, spc>>

vars == <<fetchVars, filterVars, normVars, exportVars, scriptVars>>

(***************************************************************************)
(* Bounds of the model.                                                    *)
(***************************************************************************)
MaxPages == 3     \* the server holds at most this many pages of one table
MaxPageLen == 1   \* longest page built from SampleRecords
MaxFeatures == 2  \* most features in an input collection
MaxCoords == 120  \* longest coordinate list given to simplify_coordinates

(***************************************************************************)
(* Values.                                                                 *)
(***************************************************************************)
None == "None"                      \* Python None / an absent JSON key
Tokens == {"itrA", "itrB"}          \* continuation tokens (non-empty strings)
Tables == {"Films", "People"}
PageSize == 100                     \* params={"pageSize": 100}
Statuses == {200, 206, 404}         \* 200, another 2xx, an error status

EmptyFields == <<>>
RecA == [id |-> 1, fields |-> ("Title" :> 7)]
RecB == [id |-> 2, fields |-> ("id" :> 9)]
SampleRecords == {RecA, RecB}

\* A full page of PageSize records and the 37 records that follow it.
FullPage == [i \in 1..PageSize |-> [id |-> i, fields |-> EmptyFields]]
LastPage == [i \in 1..37 |-> [id |-> PageSize + i, fields |-> EmptyFields]]

SeqsUpTo(S, n) == UNION {[1..k -> S] : k \in 0..n}

PageContents == SeqsUpTo(SampleRecords, MaxPageLen) \cup {FullPage, LastPage}

\* The pages and tokens the server can answer with: any of the above when a
\* table fetch is studied on its own (apc = "off"); in a whole run of
\* export_all_data every page holds one record and there is one token.
ServedPages == IF apc = "off" THEN PageContents ELSE {<<RecA>>}

ServedTokens == IF apc = "off" THEN Tokens ELSE {"itrA"}

(***************************************************************************)
(* What requests.get can do for the n-th page request of a table: raise a  *)
(* transport error, answer with an error status (the body is then never   *)
(* read), answer 200 with a page, or answer another 2xx status with a      *)
(* page.  A server holding at most MaxPages pages gives no token on its    *)
(* last page.                                                              *)
(***************************************************************************)
TransportError == [kind |-> "exception", status |-> 0, records |-> <<>>, offset |-> None]

ErrorResponse(s) == [kind |-> "response", status |-> s, records |-> <<>>, offset |-> None]

OkResponse(recs, tok) == [kind |-> "response", status |-> 200, records |-> recs, offset |-> tok]

\* A response with a 2xx status other than 200 whose body is a page like any other.
OtherSuccess(s, tok) == [kind |-> "response", status |-> s, records |-> <<RecA>>, offset |-> tok]

IsSuccessStatus(s) == s \in 200..299

Responses(n) ==
    {TransportError}
    \cup {ErrorResponse(s) : s \in {x \in Statuses : ~IsSuccessStatus(x)}}
    \cup {OtherSuccess(s, tok) :
            s \in {x \in Statuses : IsSuccessStatus(x) /\ x # 200},
            tok \in IF n < MaxPages THEN {"itrA"} ELSE {None}}
    \cup {OkResponse(recs, tok) :
            recs \in ServedPages,
            tok \in IF n < MaxPages THEN ServedTokens \cup {None} ELSE {None}}

\* One entry of log: the token the request carried and what came back.
Exchange(sent, resp, slept) ==
    [sent |-> sent, kind |-> resp.kind, status |-> resp.status,
     records |-> resp.records, offset |-> resp.offset, slept |-> slept]

(***************************************************************************)
(* export_table_data                                                       *)
(***************************************************************************)
FetchInit ==
    /\ pc = "idle"
    /\ table = None
    /\ all_records = <<>>
    /\ offset = None
    /\ page_count = 0
    /\ log = <<>>
    /\ written = <<>>
    /\ result = None

\* Entry: the locals of lines 89-92.
Call(t) ==
    /\ pc \in {"idle", "returned"}
    /\ pc' = "first"
    /\ table' = t
    /\ all_records' = <<>>
    /\ offset' = None
    /\ page_count' = 0
    /\ log' = <<>>
    /\ written' = <<>>
    /\ result' = None
    /\ UNCHANGED <<filterVars, normVars, exportVars, scriptVars>>

\* The token a loop request carries: params = {"pageSize": 100, "offset": offset}.
LoopParamFirstToken == IF log # <<>> THEN log[1].offset ELSE offset

LoopParam == offset

\* `while offset:` (tokens are non-empty strings, so truthy means present).
LoopTestOnce(off) == off # None /\ page_count < 2

LoopTest(off) == off # None

\* Where a non-200 status inside the loop leads: `break`.
OnLoopErrorRetry == "loop"

OnLoopError == "save"

\* Where a transport error inside export_table_data leads: the except clause
\* of lines 173-175 returns []; "raised" would be the exception leaving it.
OnTransportErrorRaise == "raised"

OnTransportErrorSave == "save"

OnTransportError == "returned"

\* `status_code == 200`, the test of lines 101 and 132.
IsOkAny2xx(status) == status \in 200..299

IsOk(status) == status = 200

\* all_records.extend(records)
ExtendPrepend(acc, recs) == recs \o acc

Extend(acc, recs) == acc \o recs

\* The first request (no offset parameter), lines 95-116.
FirstRequest ==
    /\ pc = "first"
    /\ \E resp \in Responses(1) :
        /\ log' = Append(log, Exchange(None, resp, FALSE))
        /\ IF resp.kind = "exception"
           THEN /\ pc' = OnTransportError
                /\ result' = <<>>
                /\ UNCHANGED <<all_records, offset, page_count>>
           ELSE IF ~IsOk(resp.status)
           THEN /\ pc' = "returned"
                /\ result' = <<>>
                /\ UNCHANGED <<all_records, offset, page_count>>
           ELSE /\ all_records' = Extend(all_records, resp.records)
                /\ offset' = resp.offset
                /\ page_count' = page_count + 1
                /\ pc' = "loop"
                /\ UNCHANGED result
    /\ UNCHANGED <<table, written, filterVars, normVars, exportVars, scriptVars>>

\* One iteration of `while offset:`, lines 122-144.
LoopRequest ==
    /\ pc = "loop"
    /\ LoopTest(offset)
    /\ \E resp \in Responses(page_count + 1) :
        IF resp.kind = "exception"
        THEN /\ log' = Append(log, Exchange(LoopParam, resp, FALSE))
             /\ pc' = OnTransportError
             /\ result' = <<>>
             /\ UNCHANGED <<all_records, offset, page_count>>
        ELSE IF IsOk(resp.status)
        THEN /\ log' = Append(log, Exchange(LoopParam, resp, TRUE))
             /\ all_records' = Extend(all_records, resp.records)
             /\ offset' = resp.offset
             /\ page_count' = page_count + 1
             /\ pc' = "loop"
             /\ UNCHANGED result
        ELSE /\ log' = Append(log, Exchange(LoopParam, resp, FALSE))
             /\ pc' = OnLoopError
             /\ UNCHANGED <<all_records, offset, page_count, result>>
    /\ UNCHANGED <<table, written, filterVars, normVars, exportVars, scriptVars>>

\* row = {'id': record['id']}; row.update(record.get('fields', {}))
Row(record) == record.fields @@ ("id" :> record.id)

JsonFileFirstRecord(t, recs) ==
    [name |-> <<t, "_data.json">>,
     content |-> IF recs = <<>> THEN <<>> ELSE <<recs[1]>>]

JsonFile(t, recs) == [name |-> <<t, "_data.json">>, content |-> recs]

CsvFile(t, recs) == [name |-> <<t, "_data.csv">>, content |-> [i \in 1..Len(recs) |-> Row(recs[i])]]

\* After the loop (offset falsy, or break): lines 146-171.
Save ==
    /\ \/ pc = "save"
       \/ pc = "loop" /\ ~LoopTest(offset)
    /\ written' = IF all_records # <<>>
                  THEN <<JsonFile(table, all_records), CsvFile(table, all_records)>>
                  ELSE <<JsonFile(table, all_records)>>
    /\ result' = all_records
    /\ pc' = "returned"
    /\ UNCHANGED <<table, all_records, offset, page_count, log,
                   filterVars, normVars, exportVars, scriptVars>>

FetchNext ==
    \/ \E t \in Tables : Call(t)
    \/ FirstRequest
    \/ LoopRequest
    \/ Save

(***************************************************************************)
(* The scripts that talk to Airtable: the constructors of AirtableExplorer *)
(* and AirtableToBaseRow, the first request of the explorer, and           *)
(* export_all_data, one step per HTTP request or loop iteration.           *)
(***************************************************************************)
Explorer == "AirtableExplorer"
Migrator == "AirtableToBaseRow"
Clients == {Explorer, Migrator}

\* os.getenv('AIRTABLE_API_KEY'): absent (None), or a string.
NoKey == [present |-> FALSE, text |-> <<>>]
EmptyKey == [present |-> TRUE, text |-> <<>>]
PatKey == [present |-> TRUE, text |-> <<"p", "a", "t", "X", "1">>]
LegacyKey == [present |-> TRUE, text |-> <<"k", "e", "y", "X", "1">>]
ApiKeys == {NoKey, EmptyKey, PatKey, LegacyKey}

\* `not self.api_key`
Falsy(key) == ~key.present \/ key.text = <<>>

\* str.startswith
StartsWith(text, prefix) ==
    Len(text) >= Len(prefix) /\ SubSeq(text, 1, Len(prefix)) = prefix

Pat == <<"p", "a", "t">>

\* AirtableExplorer.__init__: both checks raise ValueError.
explorer_init(key) ==
    IF Falsy(key) THEN "ValueError"
    ELSE IF ~StartsWith(key.text, Pat) THEN "ValueError"
    ELSE "constructed"

\* AirtableToBaseRow.__init__: only the missing key raises.
migrator_init(key) == IF Falsy(key) THEN "ValueError" ELSE "constructed"

\* What a request to the metadata API can do: answer 200, answer another
\* status, or raise.
RequestOutcomes == {"ok", "status", "exception"}

\* The accounts the runs are checked on: the bases in the order the API
\* lists them, each with its tables in schema order.
Base(id, name, tables) == [id |-> id, name |-> name, tables |-> tables]

Worlds ==
    { <<>>,
      <<Base("appA", "Pasifika", <<"Films", "People">>)>>,
      <<Base("appA", "Pasifika", <<"Films">>), Base("appB", "Archive", <<"Films">>)>>,
      <<Base("appA", "Pasifika", <<>>), Base("appB", "Archive", <<"People", "Films">>)>> }

SchemaFile(base_name) == <<base_name, "_schema.json">>

SummaryFile == <<"export_summary.json">>

EmptySummary == [bases |-> <<>>, total_records |-> 0, total_tables |-> 0]

\* The method __main__ (or another caller) invokes on the migrator.
ExportAllData == "export_all_data"
RunFullMigration == "run_full_migration"
Entries == {ExportAllData, RunFullMigration}

\* One entry of steps: a step of the migration and the value it returned.
Returned(step, value) == [step |-> step, returned |-> value]

InstructionsFile == <<"baserow_import_instructions.json">>

AnalysisFile == <<"fair_care_5vs_analysis.json">>

ExportOff ==
    /\ apc = "off"
    /\ client = Migrator
    /\ api_key = PatKey
    /\ bases = <<>>
    /\ base_idx = 0
    /\ table_idx = 0
    /\ total_tables = 0
    /\ base_summary = <<>>
    /\ export_summary = EmptySummary
    /\ file_writes = <<>>
    /\ fetches = <<>>
    /\ http_requests = 0
    /\ schema_log = <<>>
    /\ entry_point = ExportAllData
    /\ steps = <<>>
    /\ migration_result = "pending"

ExportInit ==
    /\ apc = "new"
    /\ client \in Clients
    /\ api_key \in ApiKeys
    /\ bases \in Worlds
    /\ base_idx = 0
    /\ table_idx = 0
    /\ total_tables = 0
    /\ base_summary = <<>>
    /\ export_summary = EmptySummary
    /\ file_writes = <<>>
    /\ fetches = <<>>
    /\ http_requests = 0
    /\ schema_log = <<>>
    /\ entry_point \in Entries
    /\ steps = <<>>
    /\ migration_result = "pending"

\* explorer = AirtableExplorer() / migrator = AirtableToBaseRow()
Construct ==
    /\ apc = "new"
    /\ LET outcome == IF client = Explorer THEN explorer_init(api_key)
                      ELSE migrator_init(api_key)
       IN  apc' = IF outcome = "ValueError" THEN "config_error" ELSE "constructed"
    /\ UNCHANGED <<client, entry_point, migration_result, steps,
                   schema_log, api_key, bases, base_idx, table_idx, total_tables,
                   base_summary, export_summary, file_writes, fetches, http_requests>>
    /\ UNCHANGED <<fetchVars, filterVars, normVars, scriptVars>>

\* AirtableExplorer.test_connection, the first step of run_exploration.
TestConnection ==
    /\ apc = "constructed"
    /\ client = Explorer
    /\ \E o \in RequestOutcomes :
        apc' = IF o = "ok" THEN "explorer_connected" ELSE "explorer_stopped"
    /\ http_requests' = http_requests + 1
    /\ UNCHANGED <<client, entry_point, migration_result, steps,
                   schema_log, api_key, bases, base_idx, table_idx, total_tables,
                   base_summary, export_summary, file_writes, fetches>>
    /\ UNCHANGED <<fetchVars, filterVars, normVars, scriptVars>>

\* get_airtable_bases: the list of bases, or [] on any failure.
get_airtable_bases(o) == IF o = "ok" THEN bases ELSE <<>>

\* export_base_schema: the tables of the base and the file it writes, or
\* None and no file on any failure.
export_base_schema(base, o) ==
    IF o = "ok"
    THEN [schema |-> TRUE, tables |-> base.tables, files |-> <<SchemaFile(base.name)>>]
    ELSE [schema |-> FALSE, tables |-> <<>>, files |-> <<>>]

\* export_all_data, lines 182-185.
GetBases ==
    /\ \/ apc = "constructed" /\ client = Migrator /\ entry_point = ExportAllData
       \/ apc = "estimated"
    /\ \E o \in RequestOutcomes :
        IF get_airtable_bases(o) = <<>>
        THEN /\ apc' = "export_failed"
             /\ steps' = Append(steps, Returned("export_all_data", FALSE))
             /\ UNCHANGED base_idx
        ELSE /\ apc' = "estimating"
             /\ base_idx' = 1
             /\ UNCHANGED steps
    /\ http_requests' = http_requests + 1
    /\ UNCHANGED <<client, entry_point, migration_result, schema_log, api_key, bases, table_idx, total_tables,
                   base_summary, export_summary, file_writes, fetches>>
    /\ UNCHANGED <<fetchVars, filterVars, normVars, scriptVars>>

\* One iteration of the loop of lines 189-193.
EstimateSchema ==
    /\ apc = "estimating"
    /\ base_idx <= Len(bases)
    /\ \E o \in RequestOutcomes :
        LET s == export_base_schema(bases[base_idx], o)
        IN  /\ file_writes' = file_writes \o s.files
            /\ schema_log' = Append(schema_log,
                  [base |-> base_idx, phase |-> "estimate", ok |-> s.schema])
            /\ total_tables' = IF s.schema THEN total_tables + Len(s.tables)
                               ELSE total_tables
    /\ http_requests' = http_requests + 1
    /\ IF base_idx = Len(bases)
       THEN apc' = "processing" /\ base_idx' = 1
       ELSE apc' = apc /\ base_idx' = base_idx + 1
    /\ UNCHANGED <<client, entry_point, migration_result, steps,
                   api_key, bases, table_idx, base_summary, export_summary, fetches>>
    /\ UNCHANGED <<fetchVars, filterVars, normVars, scriptVars>>

\* The head of one iteration of the loop of line 208: lines 209-223.
ProcessBase ==
    /\ apc = "processing"
    /\ base_idx <= Len(bases)
    /\ \E o \in RequestOutcomes :
        LET s == export_base_schema(bases[base_idx], o)
        IN  /\ file_writes' = file_writes \o s.files
            /\ schema_log' = Append(schema_log,
                  [base |-> base_idx, phase |-> "process", ok |-> s.schema])
            /\ IF ~s.schema
               THEN /\ base_idx' = base_idx + 1
                    /\ UNCHANGED <<apc, table_idx, base_summary>>
               ELSE /\ base_summary' = <<>>
                    /\ table_idx' = 1
                    /\ apc' = "tables"
                    /\ UNCHANGED base_idx
    /\ http_requests' = http_requests + 1
    /\ UNCHANGED <<client, entry_point, migration_result, steps,
                   api_key, bases, total_tables, export_summary, fetches>>
    /\ UNCHANGED <<fetchVars, filterVars, normVars, scriptVars>>

\* records = self.export_table_data(base_id, table_id, table_name), line 230.
StartTable ==
    /\ apc = "tables"
    /\ pc = "idle"
    /\ table_idx <= Len(bases[base_idx].tables)
    /\ Call(bases[base_idx].tables[table_idx])

\* export_summary['total_records'] += len(records);
\* export_summary['total_tables'] += 1
AddTableRecordsOnly(summary, records) ==
    [summary EXCEPT !.total_records = @ + Len(records)]

AddTable(summary, records) ==
    [summary EXCEPT !.total_records = @ + Len(records),
                    !.total_tables = @ + 1]

\* Lines 232-243, once export_table_data has returned; an exception leaving
\* export_table_data would leave export_all_data too.
TableDone ==
    /\ apc = "tables"
    /\ pc \in {"returned", "raised"}
    /\ fetches' = Append(fetches,
                    [base |-> base_idx, table |-> table,
                     transport_error |-> log[Len(log)].kind = "exception",
                     stopped_by_status |-> /\ log[Len(log)].kind = "response"
                                           /\ log[Len(log)].status # 200,
                     requests |-> Len(log)])
    /\ http_requests' = http_requests + Len(log)
    /\ file_writes' = file_writes \o [i \in 1..Len(written) |-> written[i].name]
    /\ IF pc = "raised"
       THEN /\ apc' = "crashed"
            /\ UNCHANGED <<table_idx, base_summary, export_summary>>
       ELSE /\ base_summary' = Append(base_summary,
                                 [table_name |-> table, record_count |-> Len(result)])
            /\ export_summary' = AddTable(export_summary, result)
            /\ table_idx' = table_idx + 1
            /\ UNCHANGED apc
    /\ pc' = "idle"
    /\ UNCHANGED <<client, entry_point, migration_result, steps,
                   schema_log, api_key, bases, base_idx, total_tables>>
    /\ UNCHANGED <<table, all_records, offset, page_count, log, written, result>>
    /\ UNCHANGED <<filterVars, normVars, scriptVars>>

\* export_summary['bases'].append(base_summary), line 245.
BaseDone ==
    /\ apc = "tables"
    /\ pc = "idle"
    /\ table_idx > Len(bases[base_idx].tables)
    /\ export_summary' =
         [export_summary EXCEPT !.bases =
             Append(@, [base_id |-> bases[base_idx].id,
                        base_name |-> bases[base_idx].name,
                        tables |-> base_summary])]
    /\ base_idx' = base_idx + 1
    /\ apc' = "processing"
    /\ UNCHANGED <<client, entry_point, migration_result, steps,
                   schema_log, api_key, bases, table_idx, total_tables, base_summary,
                   file_writes, fetches, http_requests>>
    /\ UNCHANGED <<fetchVars, filterVars, normVars, scriptVars>>

\* Lines 247-264: the summary file, return True.
WriteSummary ==
    /\ apc = "processing"
    /\ base_idx > Len(bases)
    /\ file_writes' = Append(file_writes, SummaryFile)
    /\ steps' = Append(steps, Returned("export_all_data", TRUE))
    /\ apc' = "exported"
    /\ UNCHANGED <<client, entry_point, migration_result, schema_log, api_key, bases, base_idx, table_idx, total_tables,
                   base_summary, export_summary, fetches, http_requests>>
    /\ UNCHANGED <<fetchVars, filterVars, normVars, scriptVars>>

RECURSIVE SchemaFilesOf(_, _)
\* The schema files a pass over bs writes when the i-th request has outcome os[i].
SchemaFilesOf(bs, os) ==
    IF bs = <<>> THEN <<>>
    ELSE SchemaFilesOf(SubSeq(bs, 1, Len(bs) - 1), os)
            \o export_base_schema(bs[Len(bs)], os[Len(bs)]).files

\* estimate_export_time, the first statement of run_full_migration: one
\* request for the bases and one schema request (and schema file) per base.
EstimateTime ==
    /\ apc = "constructed"
    /\ client = Migrator
    /\ entry_point = RunFullMigration
    /\ \E o \in RequestOutcomes, os \in [1..Len(bases) -> RequestOutcomes] :
        LET got == get_airtable_bases(o)
        IN  /\ file_writes' = file_writes \o SchemaFilesOf(got, os)
            /\ http_requests' = http_requests + 1 + Len(got)
    /\ apc' = "estimated"
    /\ UNCHANGED <<client, entry_point, migration_result, steps, schema_log, api_key, bases,
                   base_idx, table_idx, total_tables, base_summary, export_summary,
                   fetches>>
    /\ UNCHANGED <<fetchVars, filterVars, normVars, scriptVars>>

\* `if not self.<step>(): ... return False`, lines 514, 520, 526 and 532.
ProceedsAlways(returned) == TRUE

Proceeds(returned) == returned

\* Lines 513-516: export_all_data has returned.
CheckExport ==
    /\ apc \in {"exported", "export_failed"}
    /\ entry_point = RunFullMigration
    /\ IF Proceeds(steps[Len(steps)].returned)
       THEN apc' = "setup" /\ UNCHANGED migration_result
       ELSE apc' = "migration_stopped" /\ migration_result' = "False"
    /\ UNCHANGED <<client, entry_point, steps, schema_log, api_key, bases, base_idx, table_idx,
                   total_tables, base_summary, export_summary, file_writes, fetches,
                   http_requests>>
    /\ UNCHANGED <<fetchVars, filterVars, normVars, scriptVars>>

\* What the health check and the user creation request of setup_baserow can do.
HealthOutcomes == {"200", "other", "exception"}
UserOutcomes == {"created", "already exists", "other", "exception"}

\* setup_baserow: False unless the health check answers 200; the outcome of
\* the user creation is only printed.
setup_baserow(health, user) == health = "200"

\* Lines 518-522, with setup_baserow.
SetupBaserow ==
    /\ apc = "setup"
    /\ \E health \in HealthOutcomes, user \in UserOutcomes :
        LET value == setup_baserow(health, user)
        IN  /\ steps' = Append(steps,
                  [step |-> "setup_baserow", returned |-> value,
                   health |-> health,
                   user |-> IF health = "200" THEN user ELSE "not requested"])
            /\ http_requests' = http_requests + (IF health = "200" THEN 2 ELSE 1)
            /\ IF Proceeds(value)
               THEN apc' = "import" /\ UNCHANGED migration_result
               ELSE apc' = "migration_stopped" /\ migration_result' = "False"
    /\ UNCHANGED <<client, entry_point, schema_log, api_key, bases, base_idx, table_idx,
                   total_tables, base_summary, export_summary, file_writes, fetches>>
    /\ UNCHANGED <<fetchVars, filterVars, normVars, scriptVars>>

\* summary_file.exists()
SummaryExists == \E i \in 1..Len(file_writes) : file_writes[i] = SummaryFile

\* Lines 524-528, with import_to_baserow: False when the export summary is
\* missing, else the instructions file is written.
ImportToBaserow ==
    /\ apc = "import"
    /\ LET value == SummaryExists
       IN  /\ steps' = Append(steps, Returned("import_to_baserow", value))
           /\ file_writes' = IF value THEN Append(file_writes, InstructionsFile)
                             ELSE file_writes
           /\ IF Proceeds(value)
              THEN apc' = "analysis" /\ UNCHANGED migration_result
              ELSE apc' = "migration_stopped" /\ migration_result' = "False"
    /\ UNCHANGED <<client, entry_point, schema_log, api_key, bases, base_idx, table_idx,
                   total_tables, base_summary, export_summary, fetches, http_requests>>
    /\ UNCHANGED <<fetchVars, filterVars, normVars, scriptVars>>

\* Lines 530-545, with create_fair_care_analysis; return True.
CreateFairCareAnalysis ==
    /\ apc = "analysis"
    /\ LET value == SummaryExists
       IN  /\ steps' = Append(steps, Returned("create_fair_care_analysis", value))
           /\ file_writes' = IF value THEN Append(file_writes, AnalysisFile)
                             ELSE file_writes
           /\ IF Proceeds(value)
              THEN apc' = "migration_done" /\ migration_result' = "True"
              ELSE apc' = "migration_stopped" /\ migration_result' = "False"
    /\ UNCHANGED <<client, entry_point, schema_log, api_key, bases, base_idx, table_idx,
                   total_tables, base_summary, export_summary, fetches, http_requests>>
    /\ UNCHANGED <<fetchVars, filterVars, normVars, scriptVars>>

ExportNext ==
    \/ Construct
    \/ TestConnection
    \/ EstimateTime
    \/ GetBases
    \/ EstimateSchema
    \/ ProcessBase
    \/ StartTable
    \/ FirstRequest
    \/ LoopRequest
    \/ Save
    \/ TableDone
    \/ BaseDone
    \/ WriteSummary
    \/ CheckExport
    \/ SetupBaserow
    \/ ImportToBaserow
    \/ CreateFairCareAnalysis

(***************************************************************************)
(* Strings.  A Python str is modelled as the sequence of its characters;   *)
(* the element "a-macron" stands for the letter a with a macron (in        *)
(* 'te ika-a-maui') and "A-macron" for its capital.                        *)
(***************************************************************************)
Whitespace == {" ", "\t", "\n"}

UpperChars ==
    <<"A", "B", "C", "D", "E", "F", "G", "H", "I", "J", "K", "L", "M",
      "N", "O", "P", "Q", "R", "S", "T", "U", "V", "W", "X", "Y", "Z", "A-macron">>

UpperSet == {UpperChars[i] : i \in 1..Len(UpperChars)}

LowerChars ==
    <<"a", "b", "c", "d", "e", "f", "g", "h", "i", "j", "k", "l", "m",
      "n", "o", "p", "q", "r", "s", "t", "u", "v", "w", "x", "y", "z", "a-macron">>

LowerChar(c) ==
    IF c \in UpperSet
    THEN LowerChars[CHOOSE i \in 1..Len(UpperChars) : UpperChars[i] = c]
    ELSE c

\* str.lower()
Lower(s) == [i \in 1..Len(s) |-> LowerChar(s[i])]

RECURSIVE LStrip(_)
LStrip(s) == IF s # <<>> /\ Head(s) \in Whitespace THEN LStrip(Tail(s)) ELSE s

RECURSIVE RStrip(_)
RStrip(s) ==
    IF s # <<>> /\ s[Len(s)] \in Whitespace THEN RStrip(SubSeq(s, 1, Len(s) - 1)) ELSE s

\* str.strip()
Strip(s) == RStrip(LStrip(s))

\* dict.get(key, default) on a dict modelled as a function
Get(d, key, default) == IF key \in DOMAIN d THEN d[key] ELSE default

\* d[key] = value
Put(d, key, value) == (key :> value) @@ d

(***************************************************************************)
(* create-clean-film-islands.py                                            *)
(***************************************************************************)
\* The dict literal of normalize_island_name, as a set of <<key, value>>.
name_mappings ==
    {
      << <<"b", "i", "g", " ", "i", "s", "l", "a", "n", "d">>,
         <<"h", "a", "w", "a", "i", "i">> >>,
      << <<"o", "'", "a", "h", "u">>,
         <<"o", "a", "h", "u">> >>,
      << <<"o", "a", "h", "u">>,
         <<"o", "a", "h", "u">> >>,
      << <<"r", "a", "p", "a", " ", "n", "u", "i">>,
         <<"e", "a", "s", "t", "e", "r", " ", "i", "s", "l", "a", "n", "d">> >>,
      << <<"p", "a", "p", "u", "a", " ", "n", "e", "w", " ", "g", "u", "i", "n", "e", "a">>,
         <<"n", "e", "w", " ", "g", "u", "i", "n", "e", "a">> >>,
      << <<"a", "o", "t", "e", "a", "r", "o", "a">>,
         <<"n", "e", "w", " ", "z", "e", "a", "l", "a", "n", "d">> >>,
      << <<"t", "e", " ", "i", "k", "a", "-", "a", "-", "m", "a-macron", "u", "i">>,
         <<"n", "o", "r", "t", "h", " ", "i", "s", "l", "a", "n", "d">> >>,
      << <<"t", "e", " ", "i", "k", "a", "-", "a", "-", "m", "a-macron", "u", "i", " ", "/", " ", "n", "o", "r", "t", "h", " ", "i", "s", "l", "a", "n", "d">>,
         <<"n", "o", "r", "t", "h", " ", "i", "s", "l", "a", "n", "d">> >>,
      << <<"m", "a", "n", "o", "n", "o", " ", "i", "s", "l", "a", "n", "d">>,
         <<"m", "a", "n", "o", "n", "o">> >>,
      << <<"u", "p", "o", "l", "u", " ", "i", "s", "l", "a", "n", "d">>,
         <<"u", "p", "o", "l", "u">> >>,
      << <<"t", "a", "n", "n", "a", " ", "i", "s", "l", "a", "n", "d">>,
         <<"t", "a", "n", "n", "a">> >>,
      << <<"b", "o", "u", "g", "a", "i", "n", "v", "i", "l", "l", "e", " ", "i", "s", "l", "a", "n", "d">>,
         <<"b", "o", "u", "g", "a", "i", "n", "v", "i", "l", "l", "e">> >>,
      << <<"g", "o", "u", "l", "b", "u", "r", "n", " ", "i", "s", "l", "a", "n", "d", "s">>,
         <<"g", "o", "u", "l", "b", "u", "r", "n">> >>,
      << <<"s", "a", "t", "a", "w", "a", "l">>,
         <<"s", "a", "t", "a", "w", "a", "l">> >>,
      << <<"s", "a", "t", "a", "w", "a", "l", " ">>,
         <<"s", "a", "t", "a", "w", "a", "l">> >>,
      << <<"r", "a", "p", "a", " ", "n", "u", "i", " ">>,
         <<"e", "a", "s", "t", "e", "r", " ", "i", "s", "l", "a", "n", "d">> >>,
      << <<"h", "o", "n", "o", "l", "u", "l", "u">>,
         <<"o", "a", "h", "u">> >>,
      << <<"j", "a", "r", "v", "i", "s">>,
         <<"j", "a", "r", "v", "i", "s", " ", "i", "s", "l", "a", "n", "d">> >>,
      << <<"k", "o", "s", "r", "a", "e">>,
         <<"k", "o", "s", "r", "a", "e">> >>,
      << <<"r", "o", "t", "u", "m", "a">>,
         <<"r", "o", "t", "u", "m", "a">> >>,
      << <<"s", "a", "i", "p", "a", "n">>,
         <<"s", "a", "i", "p", "a", "n">> >>,
      << <<"t", "o", "n", "g", "a", "t", "a", "p", "u">>,
         <<"t", "o", "n", "g", "a", "t", "a", "p", "u">> >>,
      << <<"t", "u", "v", "a", "l", "u">>,
         <<"t", "u", "v", "a", "l", "u">> >>,
      << <<"k", "i", "r", "i", "b", "a", "t", "i">>,
         <<"k", "i", "r", "i", "b", "a", "t", "i">> >>,
      << <<"g", "u", "a", "m">>,
         <<"g", "u", "a", "m">> >>,
      << <<"m", "a", "u", "i">>,
         <<"m", "a", "u", "i">> >>,
      << <<"m", "o", "l", "o", "k", "a", "i">>,
         <<"m", "o", "l", "o", "k", "a", "i">> >>,
      << <<"h", "a", "w", "a", "i", "i">>,
         <<"h", "a", "w", "a", "i", "i">> >>,
      << <<"n", "o", "r", "t", "h", " ", "i", "s", "l", "a", "n", "d">>,
         <<"n", "o", "r", "t", "h", " ", "i", "s", "l", "a", "n", "d">> >>,
      << <<"a", "u", "s", "t", "r", "a", "l", "i", "a">>,
         <<"a", "u", "s", "t", "r", "a", "l", "i", "a">> >>
    }

\* name_mappings.get(name, default)
MappingGet(name, default) ==
    LET hits == {e \in name_mappings : e[1] = name}
    IN  IF hits = {} THEN default ELSE (CHOOSE e \in hits : TRUE)[2]

normalize_island_name_unstripped(name) ==
    LET n == Lower(name) IN MappingGet(n, n)

normalize_island_name(name) ==
    LET n == Strip(Lower(name)) IN MappingGet(n, n)

\* name = feature.get('properties', {}).get('name', '').lower().strip()
LoweredName(feature) == Strip(Lower(Get(feature.properties, "name", <<>>)))

\* get_film_islands over the 'island' values of the film records
get_film_islands(film_values) ==
    {Strip(v) : v \in {w \in film_values : w # <<>> /\ Strip(w) # <<>>}}

is_target_island_named(feature, target_islands) == LoweredName(feature) # <<>>

is_target_island(feature, target_islands) ==
    LET normalized_name == normalize_island_name(LoweredName(feature))
    IN  \E target \in target_islands : normalize_island_name(target) = normalized_name

\* `area > island_groups[normalized_name]['area']`
KeepsSmaller(area, kept) == area < kept

KeepsLater(area, kept) == area >= kept

IsLarger(area, kept) == area > kept

\* island_groups is a dict: its keys stay in insertion order, and assigning
\* to a key already present keeps the key's position.
AddToGroups(groups, feature) ==
    LET name == LoweredName(feature)
        normalized_name == normalize_island_name(name)
        area == Get(feature.properties, "area", 0)
        entry == [key |-> normalized_name, feature |-> feature,
                  area |-> area, original_name |-> name]
        at == {j \in 1..Len(groups) : groups[j].key = normalized_name}
    IN  IF at = {} THEN Append(groups, entry)
        ELSE LET j == CHOOSE j \in at : TRUE
             IN  IF IsLarger(area, groups[j].area)
                 THEN [groups EXCEPT ![j] = entry]
                 ELSE groups

RECURSIVE island_groups(_, _)
\* The loop of lines 120-132 over islands_data['features'].
island_groups(feats, film_islands) ==
    IF feats = <<>> THEN <<>>
    ELSE LET before == island_groups(SubSeq(feats, 1, Len(feats) - 1), film_islands)
             feature == feats[Len(feats)]
         IN  IF is_target_island(feature, film_islands)
             THEN AddToGroups(before, feature)
             ELSE before

\* One element of final_features, lines 139-147.
OutputFeatureRenamed(entry) ==
    [entry.feature EXCEPT !.properties =
        Put(Put(Put(Put(@, "film_relevant", TRUE), "normalized_name", entry.key),
                "original_film_name", entry.original_name), "name", entry.key)]

OutputFeature(entry) ==
    [entry.feature EXCEPT !.properties =
        Put(Put(Put(@, "film_relevant", TRUE), "normalized_name", entry.key),
            "original_film_name", entry.original_name)]

\* list.sort(key=area, reverse=True) is stable: a feature goes after the
\* features of greater or equal area that precede it.
InsertByArea(sorted, f) ==
    LET k == Cardinality({i \in 1..Len(sorted) :
                            sorted[i].properties.area >= f.properties.area})
    IN  SubSeq(sorted, 1, k) \o <<f>> \o SubSeq(sorted, k + 1, Len(sorted))

Unsorted(fs) == fs

RECURSIVE SortByAreaDescending(_)
SortByAreaDescending(fs) ==
    IF fs = <<>> THEN <<>>
    ELSE InsertByArea(SortByAreaDescending(SubSeq(fs, 1, Len(fs) - 1)), fs[Len(fs)])

\* Lines 104-161: the outcome of a run on a loaded collection; the sort key
\* x['properties']['area'] raises KeyError when a kept feature has no area,
\* and then no file is written.
create_clean_film_islands(islands_data, film_values) ==
    LET film_islands == get_film_islands(film_values)
        groups == island_groups(islands_data, film_islands)
        final_features == [i \in 1..Len(groups) |-> OutputFeature(groups[i])]
    IN  IF \E i \in 1..Len(final_features) : "area" \notin DOMAIN final_features[i].properties
        THEN [status |-> "crashed", features |-> <<>>]
        ELSE [status |-> "done", features |-> SortByAreaDescending(final_features)]

(***************************************************************************)
(* Inputs of the filter.  Areas are in tenths of a square kilometre.       *)
(***************************************************************************)
EasterIsland == <<"E", "a", "s", "t", "e", "r", " ", "I", "s", "l", "a", "n", "d">>
RapaNui == <<"R", "a", "p", "a", " ", "N", "u", "i">>
RapaNuiTrailing == <<"r", "a", "p", "a", " ", "n", "u", "i", " ">>
Tahiti == <<"T", "a", "h", "i", "t", "i">>
TahitiPadded == <<" ", "T", "A", "H", "I", "T", "I", " ">>
Blank == <<" ">>

FeatureNames == {EasterIsland, RapaNui, TahitiPadded}
Areas == {500, 1636}
NameProps == {("name" :> n) : n \in FeatureNames} \cup {<<>>}
AreaProps == {("area" :> a) : a \in Areas} \cup {<<>>}
RegionProp == ("region" :> "Polynesia")
InputProps == {n @@ a @@ RegionProp : n \in NameProps, a \in AreaProps}

\* Feature collections of at most MaxFeatures features; the geometry of the
\* i-th feature is its own (i).
Collections ==
    UNION {{[i \in 1..k |-> [properties |-> p[i], geometry |-> i]] : p \in [1..k -> InputProps]}
           : k \in 0..MaxFeatures}

FilmValues == {RapaNui, RapaNuiTrailing, Tahiti, Blank}

\* load_geojson: the parsed file, or None after the except clause.
load_geojson(readable, content) ==
    IF readable THEN [loaded |-> TRUE, data |-> content]
    ELSE [loaded |-> FALSE, data |-> <<>>]

\* load_film_data: the parsed file, or [] after the except clause.
load_film_data(readable, content) == IF readable THEN content ELSE {}

\* `if not islands_data:` (a loaded FeatureCollection is a non-empty dict).
NeverStops(islands_data) == FALSE

NotLoaded(islands_data) == ~islands_data.loaded

\* The whole of create_clean_film_islands on the two files: "returned_early"
\* is the return of line 100, "crashed" an exception leaving the function.
run_script(islands_ok, islands_content, films_ok, films_content) ==
    LET islands_data == load_geojson(islands_ok, islands_content)
    IN  IF NotLoaded(islands_data)
        THEN [status |-> "returned_early", features |-> <<>>]
        ELSE IF ~islands_data.loaded
        THEN [status |-> "crashed", features |-> <<>>]
        ELSE create_clean_film_islands(islands_data.data,
                                       load_film_data(films_ok, films_content))

FilterOff ==
    /\ features = <<>>
    /\ films = {}
    /\ islands_readable = TRUE
    /\ films_readable = TRUE
    /\ fpc = "off"
    /\ out_file = <<>>
    /\ rerun_file = <<>>

FilterInit ==
    /\ islands_readable \in BOOLEAN
    /\ films_readable \in BOOLEAN
    /\ features \in (IF islands_readable THEN Collections ELSE {<<>>})
    /\ films \in (IF films_readable THEN SUBSET FilmValues ELSE {{}})
    /\ fpc = "start"
    /\ out_file = <<>>
    /\ rerun_file = <<>>

\* One run of the script on major-pacific-islands.geojson.
RunFilter ==
    /\ fpc = "start"
    /\ LET r == run_script(islands_readable, features, films_readable, films)
       IN  /\ fpc' = r.status
           /\ out_file' = r.features
    /\ UNCHANGED <<features, films, rerun_file, islands_readable, films_readable,
                   fetchVars, normVars, exportVars, scriptVars>>

\* A second run whose input collection is the file the first run wrote.
RerunFilter ==
    /\ fpc = "done"
    /\ LET r == run_script(TRUE, out_file, films_readable, films)
       IN  /\ fpc' = IF r.status = "done" THEN "rerun_done" ELSE "rerun_crashed"
           /\ rerun_file' = r.features
    /\ UNCHANGED <<features, films, out_file, islands_readable, films_readable,
                   fetchVars, normVars, exportVars, scriptVars>>

FilterNext == RunFilter \/ RerunFilter

(***************************************************************************)
(* Inputs of normalize_island_name on its own: every key and value of the  *)
(* table and some names outside it, each as written, capitalised, padded.  *)
(***************************************************************************)
UpperChar(c) ==
    IF \E i \in 1..Len(LowerChars) : LowerChars[i] = c
    THEN UpperChars[CHOOSE i \in 1..Len(LowerChars) : LowerChars[i] = c]
    ELSE c

Upper(s) == [i \in 1..Len(s) |-> UpperChar(s[i])]

BaseNames ==
    {e[1] : e \in name_mappings} \cup {e[2] : e \in name_mappings}
    \cup {Tahiti, EasterIsland, <<>>, Blank}

NameSamples ==
    UNION {{s, Upper(s), <<" ">> \o s \o <<"\t">>, <<"\n">> \o Upper(s), s \o <<" ">>}
           : s \in BaseNames}

NormalizeOff ==
    /\ raw_name = <<>>
    /\ normalized = <<>>
    /\ npc = "off"

NormalizeInit ==
    /\ raw_name \in NameSamples
    /\ normalized = <<>>
    /\ npc = "start"

\* One call normalize_island_name(raw_name).
Normalize ==
    /\ npc = "start"
    /\ normalized' = normalize_island_name(raw_name)
    /\ npc' = "done"
    /\ UNCHANGED <<raw_name, fetchVars, filterVars, exportVars, scriptVars>>

(***************************************************************************)
(* Specifications.                                                         *)
(***************************************************************************)
(***************************************************************************)
(* create-film-islands.py: normalize_island_name with its variations       *)
(* table.  The table is a dict literal, so it is visited in the order      *)
(* written.                                                                *)
(***************************************************************************)
variations ==
    <<
      [standard |-> <<"b", "i", "g", " ", "i", "s", "l", "a", "n", "d">>,
       variants |-> <<<<"h", "a", "w", "a", "i", "i">>,
                      <<"h", "a", "w", "a", "i", "i", " ", "i", "s", "l", "a", "n", "d">>>>],
      [standard |-> <<"o", "a", "h", "u">>,
       variants |-> <<<<"o", "'", "a", "h", "u">>,
                      <<"o", "a", "h", "u">>>>],
      [standard |-> <<"r", "a", "p", "a", " ", "n", "u", "i">>,
       variants |-> <<<<"e", "a", "s", "t", "e", "r", " ", "i", "s", "l", "a", "n", "d">>>>],
      [standard |-> <<"p", "a", "p", "u", "a", " ", "n", "e", "w", " ", "g", "u", "i", "n", "e", "a">>,
       variants |-> <<<<"n", "e", "w", " ", "g", "u", "i", "n", "e", "a">>>>],
      [standard |-> <<"a", "o", "t", "e", "a", "r", "o", "a">>,
       variants |-> <<<<"n", "e", "w", " ", "z", "e", "a", "l", "a", "n", "d">>,
                      <<"n", "o", "r", "t", "h", " ", "i", "s", "l", "a", "n", "d">>,
                      <<"s", "o", "u", "t", "h", " ", "i", "s", "l", "a", "n", "d">>>>],
      [standard |-> <<"t", "e", " ", "i", "k", "a", "-", "a", "-", "m", "a-macron", "u", "i">>,
       variants |-> <<<<"n", "o", "r", "t", "h", " ", "i", "s", "l", "a", "n", "d">>,
                      <<"t", "e", " ", "i", "k", "a", "-", "a", "-", "m", "a", "u", "i">>>>],
      [standard |-> <<"m", "a", "n", "o", "n", "o", " ", "i", "s", "l", "a", "n", "d">>,
       variants |-> <<<<"m", "a", "n", "o", "n", "o">>>>],
      [standard |-> <<"u", "p", "o", "l", "u", " ", "i", "s", "l", "a", "n", "d">>,
       variants |-> <<<<"u", "p", "o", "l", "u">>>>],
      [standard |-> <<"t", "a", "n", "n", "a", " ", "i", "s", "l", "a", "n", "d">>,
       variants |-> <<<<"t", "a", "n", "n", "a">>>>],
      [standard |-> <<"b", "o", "u", "g", "a", "i", "n", "v", "i", "l", "l", "e", " ", "i", "s", "l", "a", "n", "d">>,
       variants |-> <<<<"b", "o", "u", "g", "a", "i", "n", "v", "i", "l", "l", "e">>>>],
      [standard |-> <<"g", "o", "u", "l", "b", "u", "r", "n", " ", "i", "s", "l", "a", "n", "d", "s">>,
       variants |-> <<<<"g", "o", "u", "l", "b", "u", "r", "n">>>>],
      [standard |-> <<"s", "a", "t", "a", "w", "a", "l">>,
       variants |-> <<<<"s", "a", "t", "a", "w", "a", "l", " ", "i", "s", "l", "a", "n", "d">>>>]
    >>

\* `name in variants or name == standard`
ListsName(row, name) ==
    \/ \E i \in 1..Len(row.variants) : row.variants[i] = name
    \/ name = row.standard

\* The rows of the table that list the name.
RowsListing(name) == {k \in 1..Len(variations) : ListsName(variations[k], name)}

Min(S) == CHOOSE x \in S : \A y \in S : x <= y

\* The loop of lines 61-63 returns at the first row that lists the name.
FirstRowListing(rows) == Min(rows)

\* normalize_island_name of create-film-islands.py
normalize_by_variations(name) ==
    LET lowered == Strip(Lower(name))
        rows == RowsListing(lowered)
    IN  IF rows = {} THEN lowered
        ELSE variations[FirstRowListing(rows)].standard

\* The names the table mentions, and two it does not.
ListedNames ==
    {variations[k].standard : k \in 1..Len(variations)}
    \cup UNION {{variations[k].variants[i] : i \in 1..Len(variations[k].variants)}
                : k \in 1..Len(variations)}

VariationSamples ==
    UNION {{s, Upper(s), <<" ">> \o s \o <<"\t">>, <<"\n">> \o Upper(s)}
           : s \in ListedNames \cup {Tahiti, <<>>}}

VariationsInit ==
    /\ raw_name \in VariationSamples
    /\ normalized = <<>>
    /\ npc = "start"

\* One call normalize_island_name(raw_name) of create-film-islands.py.
NormalizeByVariations ==
    /\ npc = "start"
    /\ normalized' = normalize_by_variations(raw_name)
    /\ npc' = "done"
    /\ UNCHANGED <<raw_name, fetchVars, filterVars, exportVars, scriptVars>>

(***************************************************************************)
(* create-film-islands.py: is_relevant_island and                          *)
(* create_film_islands_geojson.                                            *)
(***************************************************************************)
key_islands ==
    <<
      <<"F", "i", "j", "i">>,
      <<"S", "a", "m", "o", "a">>,
      <<"T", "o", "n", "g", "a">>,
      <<"T", "a", "h", "i", "t", "i">>,
      <<"N", "e", "w", " ", "C", "a", "l", "e", "d", "o", "n", "i", "a">>,
      <<"V", "a", "n", "u", "a", "t", "u">>,
      <<"S", "o", "l", "o", "m", "o", "n", " ", "I", "s", "l", "a", "n", "d", "s">>,
      <<"P", "a", "l", "a", "u">>,
      <<"M", "a", "r", "s", "h", "a", "l", "l", " ", "I", "s", "l", "a", "n", "d", "s">>,
      <<"K", "i", "r", "i", "b", "a", "t", "i">>,
      <<"T", "u", "v", "a", "l", "u">>,
      <<"N", "a", "u", "r", "u">>,
      <<"C", "o", "o", "k", " ", "I", "s", "l", "a", "n", "d", "s">>,
      <<"F", "r", "e", "n", "c", "h", " ", "P", "o", "l", "y", "n", "e", "s", "i", "a">>,
      <<"A", "m", "e", "r", "i", "c", "a", "n", " ", "S", "a", "m", "o", "a">>,
      <<"G", "u", "a", "m">>,
      <<"N", "o", "r", "t", "h", "e", "r", "n", " ", "M", "a", "r", "i", "a", "n", "a", " ", "I", "s", "l", "a", "n", "d", "s">>,
      <<"F", "e", "d", "e", "r", "a", "t", "e", "d", " ", "S", "t", "a", "t", "e", "s", " ", "o", "f", " ", "M", "i", "c", "r", "o", "n", "e", "s", "i", "a">>,
      <<"N", "i", "u", "e">>,
      <<"T", "o", "k", "e", "l", "a", "u">>,
      <<"W", "a", "l", "l", "i", "s", " ", "a", "n", "d", " ", "F", "u", "t", "u", "n", "a">>,
      <<"P", "i", "t", "c", "a", "i", "r", "n">>,
      <<"N", "o", "r", "f", "o", "l", "k", " ", "I", "s", "l", "a", "n", "d">>
    >>

\* `needle in hay` for two strings
Contains(hay, needle) ==
    \E i \in 0..(Len(hay) - Len(needle)) : SubSeq(hay, i + 1, i + Len(needle)) = needle

\* `normalize_island_name(film_island) == normalized_name` for some film island
MentionedBy(film_islands, name) ==
    \E film_island \in film_islands :
        normalize_by_variations(film_island) = normalize_by_variations(name)

\* `key_island.lower() in name or name in key_island.lower()`
IsKeyName(key_island, name) ==
    Contains(name, Lower(key_island)) \/ Contains(Lower(key_island), name)

is_relevant_island(feature, film_islands, keys) ==
    LET name == Strip(Lower(Get(feature.properties, "name", <<>>)))
    IN  \/ MentionedBy(film_islands, name)
        \/ \E k \in 1..Len(keys) : IsKeyName(keys[k], name)

\* Lines 115-124: the copy appended to relevant_islands.
RelevantFeature(feature, film_islands) ==
    [feature EXCEPT !.properties =
        Put(Put(@, "film_relevant", TRUE),
            "mentioned_in_films", MentionedBy(film_islands, feature.properties["name"]))]

RECURSIVE SelectRelevant(_, _)
\* The features of the loop of lines 113-124 that pass is_relevant_island.
SelectRelevant(feats, film_islands) ==
    IF feats = <<>> THEN <<>>
    ELSE LET before == SelectRelevant(SubSeq(feats, 1, Len(feats) - 1), film_islands)
             feature == feats[Len(feats)]
         IN  IF is_relevant_island(feature, film_islands, key_islands)
             THEN Append(before, feature)
             ELSE before

\* create_film_islands_geojson on a loaded collection.  props['name'] of
\* line 119 is evaluated once per film island, so a relevant feature without
\* a name raises KeyError when there is a film island, before any file is
\* written; the statistics of lines 145-149 raise KeyError after the file is
\* written when a feature mentioned in films has no area or no region.
create_film_islands_geojson(islands_data, film_values) ==
    LET film_islands == get_film_islands(film_values)
        selected == SelectRelevant(islands_data, film_islands)
    IN  IF film_islands # {} /\ \E i \in 1..Len(selected) :
                                    "name" \notin DOMAIN selected[i].properties
        THEN [status |-> "cfi_crashed", features |-> <<>>]
        ELSE LET relevant_islands ==
                     [i \in 1..Len(selected) |->
                         IF "name" \in DOMAIN selected[i].properties
                         THEN RelevantFeature(selected[i], film_islands)
                         ELSE [selected[i] EXCEPT !.properties =
                                  Put(Put(@, "film_relevant", TRUE),
                                      "mentioned_in_films", FALSE)]]
             IN  IF \E i \in 1..Len(relevant_islands) :
                        /\ relevant_islands[i].properties["mentioned_in_films"]
                        /\ {"area", "region"} \ DOMAIN relevant_islands[i].properties # {}
                 THEN [status |-> "cfi_crashed_after_write", features |-> relevant_islands]
                 ELSE [status |-> "cfi_done", features |-> relevant_islands]

Rock == <<"R", "o", "c", "k">>

\* Inputs: feature names that are a key island, contain one, are part of
\* one, are a film island, are empty, are missing or are none of these;
\* with and without an area.
CfiCollections ==
    LET Fiji == <<"F", "i", "j", "i">>
        FijiEast == <<"F", "i", "j", "i", " ", "E", "a", "s", "t">>
        Ton == <<"T", "o", "n">>
        names == {Fiji, FijiEast, Ton, Rock, RapaNui, <<>>}
        nameProps == {("name" :> n) : n \in names} \cup {<<>>}
        areaProps == {("area" :> 500), <<>>}
        props == {n @@ a @@ RegionProp : n \in nameProps, a \in areaProps}
    IN  UNION {{[i \in 1..k |-> [properties |-> q[i], geometry |-> i]] : q \in [1..k -> props]}
               : k \in 0..MaxFeatures}

CfiFilmValues == {EasterIsland, Tahiti}

\* One run of create-film-islands.py on major-pacific-islands.geojson.
RunFilmIslands ==
    /\ fpc = "cfi_start"
    /\ LET islands_data == load_geojson(islands_readable, features)
       IN  IF NotLoaded(islands_data)
           THEN fpc' = "cfi_returned_early" /\ out_file' = <<>>
           ELSE LET r == create_film_islands_geojson(
                             islands_data.data, load_film_data(films_readable, films))
                IN  fpc' = r.status /\ out_file' = r.features
    /\ UNCHANGED <<features, films, rerun_file, islands_readable, films_readable,
                   fetchVars, normVars, exportVars, scriptVars>>

(***************************************************************************)
(* filter-major-islands.py.  Areas are in tenths of a square kilometre.    *)
(***************************************************************************)
\* Line 30: `area > 1.0`
MajorArea == 10

\* Lines 19-22
get_island_area(feature) == Get(feature.properties, "area", 0)

major_island_names ==
    <<
      <<"h", "a", "w", "a", "i", "i">>,
      <<"o", "a", "h", "u">>,
      <<"m", "a", "u", "i">>,
      <<"k", "a", "u", "a", "i">>,
      <<"m", "o", "l", "o", "k", "a", "i">>,
      <<"l", "a", "n", "a", "i">>,
      <<"n", "i", "i", "h", "a", "u">>,
      <<"k", "a", "h", "o", "o", "l", "a", "w", "e">>,
      <<"f", "i", "j", "i">>,
      <<"v", "i", "t", "i", " ", "l", "e", "v", "u">>,
      <<"v", "a", "n", "u", "a", " ", "l", "e", "v", "u">>,
      <<"t", "a", "v", "e", "u", "n", "i">>,
      <<"k", "a", "d", "a", "v", "u">>,
      <<"s", "a", "m", "o", "a">>,
      <<"u", "p", "o", "l", "u">>,
      <<"s", "a", "v", "a", "i", "i">>,
      <<"t", "u", "t", "u", "i", "l", "a">>,
      <<"m", "a", "n", "o", "n", "o">>,
      <<"t", "o", "n", "g", "a">>,
      <<"t", "o", "n", "g", "a", "t", "a", "p", "u">>,
      <<"v", "a", "v", "a", "u">>,
      <<"h", "a", "a", "p", "a", "i">>,
      <<"e", "u", "a">>,
      <<"t", "a", "h", "i", "t", "i">>,
      <<"m", "o", "o", "r", "e", "a">>,
      <<"b", "o", "r", "a", " ", "b", "o", "r", "a">>,
      <<"h", "u", "a", "h", "i", "n", "e">>,
      <<"r", "a", "i", "a", "t", "e", "a">>,
      <<"n", "e", "w", " ", "c", "a", "l", "e", "d", "o", "n", "i", "a">>,
      <<"g", "r", "a", "n", "d", "e", " ", "t", "e", "r", "r", "e">>,
      <<"l", "i", "f", "o", "u">>,
      <<"m", "a", "r", "e">>,
      <<"v", "a", "n", "u", "a", "t", "u">>,
      <<"e", "f", "a", "t", "e">>,
      <<"e", "s", "p", "i", "r", "i", "t", "u", " ", "s", "a", "n", "t", "o">>,
      <<"m", "a", "l", "e", "k", "u", "l", "a">>,
      <<"a", "m", "b", "r", "y", "m">>,
      <<"s", "o", "l", "o", "m", "o", "n", " ", "i", "s", "l", "a", "n", "d", "s">>,
      <<"g", "u", "a", "d", "a", "l", "c", "a", "n", "a", "l">>,
      <<"m", "a", "l", "a", "i", "t", "a">>,
      <<"n", "e", "w", " ", "g", "e", "o", "r", "g", "i", "a">>,
      <<"p", "a", "p", "u", "a", " ", "n", "e", "w", " ", "g", "u", "i", "n", "e", "a">>,
      <<"n", "e", "w", " ", "b", "r", "i", "t", "a", "i", "n">>,
      <<"n", "e", "w", " ", "i", "r", "e", "l", "a", "n", "d">>,
      <<"b", "o", "u", "g", "a", "i", "n", "v", "i", "l", "l", "e">>,
      <<"p", "a", "l", "a", "u">>,
      <<"b", "a", "b", "e", "l", "d", "a", "o", "b">>,
      <<"k", "o", "r", "o", "r">>,
      <<"p", "e", "l", "e", "l", "i", "u">>,
      <<"m", "a", "r", "s", "h", "a", "l", "l", " ", "i", "s", "l", "a", "n", "d", "s">>,
      <<"m", "a", "j", "u", "r", "o">>,
      <<"k", "w", "a", "j", "a", "l", "e", "i", "n">>,
      <<"e", "b", "e", "y", "e">>,
      <<"k", "i", "r", "i", "b", "a", "t", "i">>,
      <<"t", "a", "r", "a", "w", "a">>,
      <<"c", "h", "r", "i", "s", "t", "m", "a", "s", " ", "i", "s", "l", "a", "n", "d">>,
      <<"k", "i", "r", "i", "t", "i", "m", "a", "t", "i">>,
      <<"t", "u", "v", "a", "l", "u">>,
      <<"f", "u", "n", "a", "f", "u", "t", "i">>,
      <<"n", "a", "n", "u", "m", "e", "a">>,
      <<"n", "a", "n", "u", "m", "a", "n", "g", "a">>,
      <<"n", "a", "u", "r", "u">>,
      <<"c", "o", "o", "k", " ", "i", "s", "l", "a", "n", "d", "s">>,
      <<"r", "a", "r", "o", "t", "o", "n", "g", "a">>,
      <<"a", "i", "t", "u", "t", "a", "k", "i">>,
      <<"f", "r", "e", "n", "c", "h", " ", "p", "o", "l", "y", "n", "e", "s", "i", "a">>,
      <<"m", "a", "r", "q", "u", "e", "s", "a", "s">>,
      <<"g", "a", "m", "b", "i", "e", "r">>,
      <<"a", "u", "s", "t", "r", "a", "l">>,
      <<"e", "a", "s", "t", "e", "r", " ", "i", "s", "l", "a", "n", "d">>,
      <<"r", "a", "p", "a", " ", "n", "u", "i">>,
      <<"p", "i", "t", "c", "a", "i", "r", "n">>,
      <<"n", "o", "r", "f", "o", "l", "k">>,
      <<"g", "u", "a", "m">>,
      <<"s", "a", "i", "p", "a", "n">>,
      <<"t", "i", "n", "i", "a", "n">>,
      <<"r", "o", "t", "a">>,
      <<"f", "e", "d", "e", "r", "a", "t", "e", "d", " ", "s", "t", "a", "t", "e", "s", " ", "o", "f", " ", "m", "i", "c", "r", "o", "n", "e", "s", "i", "a">>,
      <<"p", "o", "n", "a", "p", "e">>,
      <<"k", "o", "s", "r", "a", "e">>,
      <<"y", "a", "p">>,
      <<"c", "h", "u", "u", "k">>,
      <<"n", "i", "u", "e">>,
      <<"t", "o", "k", "e", "l", "a", "u">>,
      <<"w", "a", "l", "l", "i", "s", " ", "a", "n", "d", " ", "f", "u", "t", "u", "n", "a">>,
      <<"a", "m", "e", "r", "i", "c", "a", "n", " ", "s", "a", "m", "o", "a">>,
      <<"n", "o", "r", "t", "h", "e", "r", "n", " ", "m", "a", "r", "i", "a", "n", "a", " ", "i", "s", "l", "a", "n", "d", "s">>,
      <<"w", "a", "k", "e", " ", "i", "s", "l", "a", "n", "d">>,
      <<"j", "o", "h", "n", "s", "t", "o", "n", " ", "a", "t", "o", "l", "l">>,
      <<"m", "i", "d", "w", "a", "y">>,
      <<"p", "a", "l", "m", "y", "r", "a">>,
      <<"j", "a", "r", "v", "i", "s">>,
      <<"b", "a", "k", "e", "r">>,
      <<"h", "o", "w", "l", "a", "n", "d">>
    >>

AtLeastMajorArea(area) == area >= MajorArea

\* Line 30
ExceedsMajorArea(area) == area > MajorArea

\* Lines 24-62
is_major_island(feature) ==
    LET area == get_island_area(feature)
        name == Lower(Get(feature.properties, "name", <<>>))
    IN  \/ ExceedsMajorArea(area)
        \/ \E k \in 1..Len(major_island_names) : Contains(name, major_island_names[k])

RECURSIVE SelectMajor(_)
\* Lines 76-79
SelectMajor(feats) ==
    IF feats = <<>> THEN <<>>
    ELSE LET before == SelectMajor(SubSeq(feats, 1, Len(feats) - 1))
             feature == feats[Len(feats)]
         IN  IF is_major_island(feature) THEN Append(before, feature) ELSE before

RECURSIVE SortByIslandArea(_)
\* Line 84: major_islands.sort(key=get_island_area, reverse=True), a stable
\* sort: each feature goes behind those of greater or equal area before it.
SortByIslandArea(fs) ==
    IF fs = <<>> THEN <<>>
    ELSE LET sorted == SortByIslandArea(SubSeq(fs, 1, Len(fs) - 1))
             f == fs[Len(fs)]
             k == Cardinality({i \in 1..Len(sorted) :
                                  get_island_area(sorted[i]) >= get_island_area(f)})
         IN  SubSeq(sorted, 1, k) \o <<f>> \o SubSeq(sorted, k + 1, Len(sorted))

\* filter_major_islands on a loaded collection: the file is written, then the
\* statistics of lines 97-113 read ['region'], ['name'] and ['area'] of the
\* written features and raise KeyError when one is missing.
filter_major_islands(islands_data) ==
    LET major_islands == SortByIslandArea(SelectMajor(islands_data))
    IN  IF \E i \in 1..Len(major_islands) :
               {"region", "name", "area"} \ DOMAIN major_islands[i].properties # {}
        THEN [status |-> "fmi_crashed_after_write", features |-> major_islands]
        ELSE [status |-> "fmi_done", features |-> major_islands]

\* Inputs: names that are a known island, contain one in another case, or
\* do not; areas below, at and above the threshold, or absent.
FmiCollections ==
    LET TahitiIti == <<"T", "A", "H", "I", "T", "I", " ", "I", "t", "i">>
        nameProps == {("name" :> n) : n \in {Tahiti, TahitiIti, Rock}} \cup {<<>>}
        areaProps == {("area" :> a) : a \in {MajorArea - 1, MajorArea, MajorArea + 1, 500}}
                         \cup {<<>>}
        props == {n @@ a @@ RegionProp : n \in nameProps, a \in areaProps}
    IN  UNION {{[i \in 1..k |-> [properties |-> q[i], geometry |-> i]] : q \in [1..k -> props]}
               : k \in 0..MaxFeatures}

\* One run of filter-major-islands.py on real-pacific-islands.geojson.
RunFilterMajor ==
    /\ fpc = "fmi_start"
    /\ LET islands_data == load_geojson(islands_readable, features)
       IN  IF NotLoaded(islands_data)
           THEN fpc' = "fmi_returned_early" /\ out_file' = <<>>
           ELSE LET r == filter_major_islands(islands_data.data)
                IN  fpc' = r.status /\ out_file' = r.features
    /\ UNCHANGED <<features, films, rerun_file, islands_readable, films_readable,
                   fetchVars, normVars, exportVars, scriptVars>>

(***************************************************************************)
(* extract-real-islands.py.  A coordinate is <<lon, lat>> in whole         *)
(* degrees; a JSON null or empty object is the empty function.             *)
(***************************************************************************)
\* Line 36: coords[:10]
CheckedCoordinates == 10

\* `not d` for a dict or null
IsEmptyDict(d) == DOMAIN d = {}

\* Lines 27-30 and 59-62: the first ring
FirstRing(geometry) ==
    IF geometry.type = "Polygon" THEN geometry.coordinates[1]
    ELSE geometry.coordinates[1][1]

\* Lines 38-40
InPacific(coord) ==
    LET lon == coord[1]
        lat == coord[2]
    IN  /\ (-180 <= lon /\ lon <= -100) \/ (100 <= lon /\ lon <= 180)
        /\ -60 <= lat /\ lat <= 60

AnyRing(ring) == TRUE

\* Lines 36-42
HasPacificCoordinate(ring) ==
    \E i \in 1..Len(ring) : i <= CheckedCoordinates /\ InPacific(ring[i])

\* Lines 20-42, for a feature whose geometry has a first ring
is_pacific_island(feature) ==
    IF IsEmptyDict(feature.geometry) \/ IsEmptyDict(feature.properties) THEN FALSE
    ELSE IF feature.geometry.type \notin {"Polygon", "MultiPolygon"} THEN FALSE
    ELSE HasPacificCoordinate(FirstRing(feature.geometry))

\* Lines 20-30: the call raises IndexError
IsPacificIslandRaises(feature) ==
    /\ ~IsEmptyDict(feature.geometry)
    /\ ~IsEmptyDict(feature.properties)
    /\ \/ /\ feature.geometry.type = "Polygon"
          /\ feature.geometry.coordinates = <<>>
       \/ /\ feature.geometry.type = "MultiPolygon"
          /\ \/ feature.geometry.coordinates = <<>>
             \/ feature.geometry.coordinates[1] = <<>>

name_fields == <<"Name_USGSO", "NAME_wcmcI", "NAME_LOCAL", "GEONAME">>

UnnamedIsland ==
    <<"U", "n", "n", "a", "m", "e", "d", " ", "I", "s", "l", "a", "n", "d">>

\* Lines 44-54
get_island_name(feature) ==
    LET props == feature.properties
        usable == {k \in 1..Len(name_fields) :
                      /\ Get(props, name_fields[k], <<>>) # <<>>
                      /\ Strip(props[name_fields[k]]) # <<>>}
    IN  IF usable = {} THEN UnnamedIsland
        ELSE Strip(props[name_fields[Min(usable)]])

RECURSIVE SumOf(_, _)
\* sum(coord[k] for coord in coords)
SumOf(ring, k) ==
    IF ring = <<>> THEN 0 ELSE ring[1][k] + SumOf(Tail(ring), k)

\* low <= sum / n <= high, for n > 0
MeanWithin(sum, n, low, high) == low * n <= sum /\ sum <= high * n

\* Lines 56-82
get_island_region(feature) ==
    LET geometry == feature.geometry
    IN  IF geometry.type \notin {"Polygon", "MultiPolygon"} THEN "Unknown"
        ELSE LET ring == FirstRing(geometry)
                 n == Len(ring)
                 lons == SumOf(ring, 1)
                 lats == SumOf(ring, 2)
             IN  IF n = 0 THEN "ZeroDivisionError"
                 ELSE IF MeanWithin(lons, n, 140, 180) /\ MeanWithin(lats, n, -30, 10)
                      THEN "Melanesia"
                 ELSE IF MeanWithin(lons, n, -180, -140) /\ MeanWithin(lats, n, 10, 30)
                      THEN "Hawaii"
                 ELSE IF MeanWithin(lons, n, -180, -140) /\ MeanWithin(lats, n, -30, 10)
                      THEN "Polynesia"
                 ELSE IF MeanWithin(lons, n, 140, 180) /\ MeanWithin(lats, n, 10, 30)
                      THEN "Micronesia"
                 ELSE "Pacific"

\* Lines 105-114
simplified_feature(feature) ==
    [properties |-> [name |-> get_island_name(feature),
                     region |-> get_island_region(feature),
                     area |-> Get(feature.properties, "IslandArea", 0)],
     geometry |-> feature.geometry]

\* The call of get_island_region of line 109, as recorded in region_calls.
RegionCall(position, feature) ==
    [position |-> position,
     type |-> feature.geometry.type,
     ring_len |-> IF feature.geometry.type \in {"Polygon", "MultiPolygon"}
                  THEN Len(FirstRing(feature.geometry)) ELSE 0,
     region |-> get_island_region(feature)]

RECURSIVE ExtractLoop(_, _)
\* Lines 99-115 over the first k features: the features collected, the calls
\* of get_island_region made, and whether an exception ended the loop.
ExtractLoop(feats, k) ==
    IF k = 0 THEN [pacific_islands |-> <<>>, calls |-> <<>>, raised |-> FALSE]
    ELSE LET before == ExtractLoop(feats, k - 1)
             feature == feats[k]
         IN  IF before.raised THEN before
             ELSE IF IsPacificIslandRaises(feature)
                  THEN [before EXCEPT !.raised = TRUE]
             ELSE IF ~is_pacific_island(feature) THEN before
             ELSE IF get_island_region(feature) = "ZeroDivisionError"
                  THEN [before EXCEPT !.raised = TRUE,
                                      !.calls = Append(@, RegionCall(k, feature))]
             ELSE [before EXCEPT !.pacific_islands = Append(@, simplified_feature(feature)),
                                 !.calls = Append(@, RegionCall(k, feature))]

\* Inputs: features whose first ring lies in each region, across the
\* antimeridian, outside the Pacific, has one coordinate, has its only
\* Pacific coordinate after the checked ones, is empty or is missing; a
\* Point, a null geometry and empty properties.
GlobalCollections ==
    LET PolynesiaRing == << <<-150, -18>>, <<-149, -18>>, <<-149, -17>>, <<-150, -18>> >>
        MelanesiaRing == << <<178, -18>>, <<179, -18>>, <<179, -17>>, <<178, -18>> >>
        HawaiiRing == << <<-156, 20>>, <<-155, 20>>, <<-155, 19>>, <<-156, 20>> >>
        MicronesiaRing == << <<144, 13>>, <<145, 13>>, <<145, 14>>, <<144, 13>> >>
        AntimeridianRing == << <<179, -17>>, <<-179, -17>>, <<-179, -16>>, <<179, -17>> >>
        EuropeRing == << <<10, 50>>, <<11, 50>>, <<11, 51>>, <<10, 50>> >>
        OnePointRing == << <<-150, -18>> >>
        LateRing == [i \in 1..(CheckedCoordinates + 1) |->
                        IF i <= CheckedCoordinates THEN <<10, 50>> ELSE <<-150, -18>>]
        VitiLevuPadded == <<" ", "V", "i", "t", "i", " ", "L", "e", "v", "u", " ">>
        Polygon(ring) == [type |-> "Polygon", coordinates |-> <<ring>>]
        MultiPolygon(ring) == [type |-> "MultiPolygon", coordinates |-> << <<ring>> >>]
        Named(name) == "Name_USGSO" :> name
        Sized(area) == "IslandArea" :> area
        GlobalFeatures ==
            << [properties |-> Named(Tahiti) @@ Sized(12), geometry |-> Polygon(PolynesiaRing)],
               [properties |-> ("Name_USGSO" :> Blank) @@ ("NAME_LOCAL" :> VitiLevuPadded),
                geometry |-> MultiPolygon(MelanesiaRing)],
               [properties |-> Sized(1), geometry |-> Polygon(OnePointRing)],
               [properties |-> Named(Rock) @@ Sized(-5), geometry |-> Polygon(HawaiiRing)],
               [properties |-> Named(Rock), geometry |-> Polygon(EuropeRing)],
               [properties |-> Named(Rock),
                geometry |-> [type |-> "Point", coordinates |-> <<-150, -18, 0>>]],
               [properties |-> Named(Rock), geometry |-> <<>>],
               [properties |-> <<>>, geometry |-> Polygon(PolynesiaRing)],
               [properties |-> Named(Rock), geometry |-> Polygon(<<>>)],
               [properties |-> Named(Rock),
                geometry |-> [type |-> "Polygon", coordinates |-> <<>>]],
               [properties |-> Sized(3), geometry |-> Polygon(AntimeridianRing)],
               [properties |-> Sized(3), geometry |-> Polygon(LateRing)],
               [properties |-> Sized(3), geometry |-> MultiPolygon(MicronesiaRing)] >>
    IN  UNION {{[i \in 1..k |-> GlobalFeatures[q[i]]] : q \in [1..k -> 1..Len(GlobalFeatures)]}
               : k \in 0..MaxFeatures}

\* One run of extract-real-islands.py on the global island dataset.
RunExtract ==
    /\ fpc = "epi_start"
    /\ LET global_data == load_geojson(islands_readable, features)
       IN  IF NotLoaded(global_data)
           THEN fpc' = "epi_returned_early" /\ out_file' = <<>> /\ region_calls' = <<>>
           ELSE LET r == ExtractLoop(global_data.data, Len(global_data.data))
                IN  /\ region_calls' = r.calls
                    /\ IF r.raised
                       THEN fpc' = "epi_crashed" /\ out_file' = <<>>
                       ELSE fpc' = "epi_done" /\ out_file' = r.pacific_islands
    /\ UNCHANGED <<features, films, rerun_file, islands_readable, films_readable,
                   coords, simplified, spc, fetchVars, normVars, exportVars>>

(***************************************************************************)
(* create-small-islands.py: simplify_coordinates.  A coordinate list is    *)
(* modelled by the positions of its points, so that the i-th point of the  *)
(* input is i.                                                             *)
(***************************************************************************)
KeptPoints == 50                    \* len(coords) // 50

Max(a, b) == IF a >= b THEN a ELSE b

\* coords[::step]
EveryNth(cs, step) ==
    [k \in 1..((Len(cs) + step - 1) \div step) |-> cs[(k - 1) * step + 1]]

simplify_coordinates(cs) ==
    IF Len(cs) < 3 THEN cs
    ELSE LET step == Max(1, Len(cs) \div KeptPoints)
         IN  EveryNth(cs, step)

CoordinateLists == {[i \in 1..n |-> i] : n \in 0..MaxCoords}

SimplifyInit ==
    /\ coords \in CoordinateLists
    /\ simplified = <<>>
    /\ spc = "start"

\* One call of simplify_coordinates.
Simplify ==
    /\ spc = "start"
    /\ simplified' = simplify_coordinates(coords)
    /\ spc' = "done"
    /\ UNCHANGED <<coords, region_calls, fetchVars, filterVars, normVars, exportVars>>

ScriptsOff ==
    /\ region_calls = <<>>
    /\ coords = <<>>
    /\ simplified = <<>>
    /\ spc = "off"

Init == FetchInit /\ FilterOff /\ NormalizeOff /\ ExportOff /\ ScriptsOff

Next == FetchNext

Spec == Init /\ [][Next]_vars

InitFilter == FetchInit /\ FilterInit /\ NormalizeOff /\ ExportOff /\ ScriptsOff

NextFilter == FilterNext

SpecFilter == InitFilter /\ [][NextFilter]_vars

InitNormalize == FetchInit /\ FilterOff /\ NormalizeInit /\ ExportOff /\ ScriptsOff

NextNormalize == Normalize

SpecNormalize == InitNormalize /\ [][NextNormalize]_vars

\* A run of airtable-explorer.py up to its first request, or of
\* AirtableToBaseRow() followed by export_all_data.
InitExport == FetchInit /\ FilterOff /\ NormalizeOff /\ ExportInit /\ ScriptsOff

NextExport == ExportNext

SpecExport == InitExport /\ [][NextExport]_vars

\* One call of normalize_island_name of create-film-islands.py.
InitVariations == FetchInit /\ FilterOff /\ VariationsInit /\ ExportOff /\ ScriptsOff

NextVariations == NormalizeByVariations

SpecVariations == InitVariations /\ [][NextVariations]_vars

\* One run of create-film-islands.py.
InitFilmIslands ==
    /\ FetchInit /\ NormalizeOff /\ ExportOff /\ ScriptsOff
    /\ islands_readable \in BOOLEAN
    /\ films_readable \in BOOLEAN
    /\ features \in (IF islands_readable THEN CfiCollections ELSE {<<>>})
    /\ films \in (IF films_readable THEN SUBSET CfiFilmValues ELSE {{}})
    /\ fpc = "cfi_start"
    /\ out_file = <<>>
    /\ rerun_file = <<>>

NextFilmIslands == RunFilmIslands

SpecFilmIslands == InitFilmIslands /\ [][NextFilmIslands]_vars

\* One run of filter-major-islands.py.
InitMajor ==
    /\ FetchInit /\ NormalizeOff /\ ExportOff /\ ScriptsOff
    /\ islands_readable \in BOOLEAN
    /\ films_readable = TRUE
    /\ features \in (IF islands_readable THEN FmiCollections ELSE {<<>>})
    /\ films = {}
    /\ fpc = "fmi_start"
    /\ out_file = <<>>
    /\ rerun_file = <<>>

NextMajor == RunFilterMajor

SpecMajor == InitMajor /\ [][NextMajor]_vars

\* One run of extract-real-islands.py.
InitExtract ==
    /\ FetchInit /\ NormalizeOff /\ ExportOff /\ ScriptsOff
    /\ islands_readable \in BOOLEAN
    /\ films_readable = TRUE
    /\ features \in (IF islands_readable THEN GlobalCollections ELSE {<<>>})
    /\ films = {}
    /\ fpc = "epi_start"
    /\ out_file = <<>>
    /\ rerun_file = <<>>

NextExtract == RunExtract

SpecExtract == InitExtract /\ [][NextExtract]_vars

\* One call of simplify_coordinates of create-small-islands.py.
InitSimplify ==
    /\ FetchInit /\ FilterOff /\ NormalizeOff /\ ExportOff
    /\ region_calls = <<>>
    /\ SimplifyInit

NextSimplify == Simplify

SpecSimplify == InitSimplify /\ [][NextSimplify]_vars

(***************************************************************************)
(* Properties of export_table_data.                                        *)
(***************************************************************************)
RECURSIVE ConcatOk(_)
\* The record lists of the 200 responses of a log, concatenated in order.
ConcatOk(l) ==
    IF l = <<>> THEN <<>>
    ELSE LET last == l[Len(l)]
         IN  ConcatOk(SubSeq(l, 1, Len(l) - 1))
             \o (IF last.kind = "response" /\ last.status = 200 THEN last.records ELSE <<>>)

AllOk(l) == \A i \in 1..Len(l) : l[i].kind = "response" /\ l[i].status = 200

\* C1: when every response is a 200, the fetch stops at the first page that
\* carries no continuation token: no exchange follows a token-less 200
\* response, and a call that returned after k all-200 exchanges had a token
\* on pages 1..k-1, none on page k, and returned the records of all k pages
\* (100 + 37 records over two pages: 137 records, 2 requests).
C1_StopsAtTokenlessPage ==
    /\ \A i \in 1..Len(log) :
          (log[i].kind = "response" /\ log[i].status = 200 /\ log[i].offset = None)
              => i = Len(log)
    /\ (pc = "returned" /\ AllOk(log)) =>
          /\ Len(log) >= 1
          /\ log[Len(log)].offset = None
          /\ \A i \in 1..(Len(log) - 1) : log[i].offset \in Tokens
          /\ result = ConcatOk(log)
    /\ (pc = "returned" /\ AllOk(log) /\ Len(log) >= 2
          /\ log[1].records = FullPage /\ log[2].records = LastPage
          /\ log[2].offset = None)
          => (Len(log) = 2 /\ Len(result) = 137)

C1_Witness ==
    /\ pc = "returned"
    /\ Len(log) = 2
    /\ AllOk(log)
    /\ log[1].records = FullPage /\ log[1].offset \in Tokens
    /\ log[2].records = LastPage /\ log[2].offset = None
    /\ Len(result) = 137

\* C2: the accumulated records are at every moment the concatenation, in
\* fetch order, of the record lists of the pages received so far.
C2_AccumulationPreservesOrder ==
    pc # "idle" => all_records = ConcatOk(log)

C2_Witness ==
    /\ Len(log) = 3
    /\ AllOk(log)
    /\ log[1].records = <<RecA>> /\ log[2].records = <<RecB>> /\ log[3].records = <<RecA>>
    /\ all_records = <<RecA, RecB, RecA>>

\* C3: the first request of an invocation carries no token; every later
\* request carries the token of the response immediately before it.
C3_TokenChaining ==
    /\ log # <<>> => log[1].sent = None
    /\ \A i \in 2..Len(log) : log[i].sent \in Tokens /\ log[i].sent = log[i - 1].offset

C3_Witness ==
    /\ Len(log) = 3
    /\ log[1].offset = "itrA"
    /\ log[2].offset = "itrB"
    /\ log[3].sent = "itrB"

\* C4: a failed exchange (non-200 status or transport error) is the last
\* exchange of its invocation: nothing is requested after it, nothing retried.
C4_NoRequestAfterFailure ==
    \A i \in 1..(Len(log) - 1) : log[i].kind = "response" /\ log[i].status = 200

C4_Witness ==
    /\ pc = "returned"
    /\ Len(log) = 2
    /\ log[1].offset \in Tokens
    /\ log[2].kind = "response" /\ log[2].status = 404

(***************************************************************************)
(* Properties of create_clean_film_islands.                                *)
(***************************************************************************)
NameOf(f) == Get(f.properties, "name", <<>>)

Canonical(f) == normalize_island_name(NameOf(f))

AreaOrZero(f) == Get(f.properties, "area", 0)

\* f's canonical name is the canonical name of some film island.
Matches(f) ==
    \E t \in get_film_islands(films) : normalize_island_name(t) = Canonical(f)

\* The input features that match and share the canonical name c.
Candidates(c) ==
    {k \in 1..Len(features) : Matches(features[k]) /\ Canonical(features[k]) = c}

\* C5: every feature written has a name whose normalised form is the
\* normalised form of at least one film island name.
C5_OutputMatchesAFilmIsland ==
    fpc = "done" =>
        \A i \in 1..Len(out_file) :
            /\ "name" \in DOMAIN out_file[i].properties
            /\ Matches(out_file[i])

C5_Witness ==
    /\ fpc = "done"
    /\ Len(features) = 2
    /\ NameOf(features[1]) = TahitiPadded
    /\ NameOf(features[2]) = EasterIsland
    /\ films = {RapaNuiTrailing, Blank}
    /\ Len(out_file) = 1
    /\ NameOf(out_file[1]) = EasterIsland

\* C6: the output holds at most one feature per canonical name, and its area
\* is the largest area among the matching input features of that canonical
\* name, an absent area counting as 0.
C6_OnePerCanonicalNameWithMaxArea ==
    fpc = "done" =>
        /\ \A i, j \in 1..Len(out_file) :
              i # j => Canonical(out_file[i]) # Canonical(out_file[j])
        /\ \A i \in 1..Len(out_file) :
              LET c == Canonical(out_file[i])
                  a == out_file[i].properties.area
              IN  /\ \A k \in Candidates(c) : AreaOrZero(features[k]) <= a
                  /\ \E k \in Candidates(c) : AreaOrZero(features[k]) = a

C6_Witness ==
    /\ fpc = "done"
    /\ Len(features) = 2
    /\ NameOf(features[1]) = EasterIsland /\ "area" \notin DOMAIN features[1].properties
    /\ NameOf(features[2]) = RapaNui /\ AreaOrZero(features[2]) = 500
    /\ Len(out_file) = 1
    /\ out_file[1].properties.area = 500

\* C7: among the matching features of one canonical name that share the
\* largest area, the first of the input collection is the one kept; features
\* 'Easter Island' and 'Rapa Nui' of equal area with the references
\* 'Rapa Nui' and 'rapa nui ' give exactly one output feature.
C7_TieKeepsFirstEncountered ==
    fpc = "done" =>
        /\ \A i \in 1..Len(out_file) :
              LET cands == Candidates(Canonical(out_file[i]))
                  largest == {k \in cands :
                                \A m \in cands : AreaOrZero(features[m]) <= AreaOrZero(features[k])}
              IN  /\ largest # {}
                  /\ LET first == CHOOSE k \in largest : \A m \in largest : k <= m
                     IN  /\ out_file[i].geometry = features[first].geometry
                         /\ NameOf(out_file[i]) = NameOf(features[first])
        /\ (/\ Len(features) = 2
            /\ NameOf(features[1]) = EasterIsland /\ NameOf(features[2]) = RapaNui
            /\ AreaOrZero(features[1]) = 1636 /\ AreaOrZero(features[2]) = 1636
            /\ films = {RapaNui, RapaNuiTrailing})
           => Len(out_file) = 1

C7_Witness ==
    /\ fpc = "done"
    /\ Len(features) = 2
    /\ NameOf(features[1]) = EasterIsland /\ NameOf(features[2]) = RapaNui
    /\ AreaOrZero(features[1]) = 1636 /\ AreaOrZero(features[2]) = 1636
    /\ films = {RapaNui, RapaNuiTrailing}
    /\ Len(out_file) = 1
    /\ out_file[1].geometry = 1

\* C8: the features written are in descending order of area.
C8_OutputSortedByAreaDescending ==
    fpc = "done" =>
        \A i \in 1..(Len(out_file) - 1) :
            out_file[i].properties.area >= out_file[i + 1].properties.area

C8_Witness ==
    /\ fpc = "done"
    /\ Len(out_file) = 2
    /\ AreaOrZero(features[1]) < AreaOrZero(features[2])
    /\ out_file[1].geometry = 2
    /\ out_file[2].geometry = 1

Range(seq) == {seq[i] : i \in 1..Len(seq)}

\* C9: a run on the output of a run, with the same film islands, writes the
\* same set of features.
C9_FilterIsIdempotent ==
    fpc \in {"rerun_done", "rerun_crashed"} =>
        /\ fpc = "rerun_done"
        /\ Range(rerun_file) = Range(out_file)

C9_Witness ==
    /\ fpc = "rerun_done"
    /\ Len(out_file) = 2
    /\ Len(rerun_file) = 2
    /\ \E i \in 1..2 : NameOf(out_file[i]) = RapaNui

(***************************************************************************)
(* Properties of normalize_island_name.                                    *)
(***************************************************************************)
\* key is s lower-cased, without its leading and trailing whitespace.
IsTrimmedLowerCased(key, s) ==
    \E i \in 1..(Len(s) + 1) : \E j \in (i - 1)..Len(s) :
        /\ \A k \in 1..(i - 1) : s[k] \in Whitespace
        /\ \A k \in (j + 1)..Len(s) : s[k] \in Whitespace
        /\ i <= j => (s[i] \notin Whitespace /\ s[j] \notin Whitespace)
        /\ Len(key) = j - i + 1
        /\ \A k \in 1..Len(key) : key[k] = LowerChar(s[i + k - 1])

AliasKeys == {e[1] : e \in name_mappings}

\* C10: normalize_island_name returns the alias table's value for the
\* trimmed, lower-cased name when that is a key of the table, and the
\* trimmed, lower-cased name itself otherwise.
C10_NormalizeIsLowerTrimLookup ==
    /\ \A e1, e2 \in name_mappings : e1[1] = e2[1] => e1 = e2
    /\ npc = "done" =>
          \E key \in {normalized} \cup AliasKeys :
              /\ IsTrimmedLowerCased(key, raw_name)
              /\ IF key \in AliasKeys
                 THEN <<key, normalized>> \in name_mappings
                 ELSE normalized = key

C10_Witness ==
    /\ npc = "done"
    /\ raw_name = <<"\n">> \o Upper(RapaNui)
    /\ normalized = Lower(EasterIsland)

C10_WitnessFallback ==
    /\ npc = "done"
    /\ raw_name = <<" ">> \o Tahiti \o <<"\t">>
    /\ normalized = Lower(Tahiti)

(***************************************************************************)
(* Further properties of create_clean_film_islands.                        *)
(***************************************************************************)
\* The run ended, by writing its file or by an exception.
FilterEnded == fpc \in {"done", "crashed"}

\* C11: the filter is complete: every input feature that matches a film
\* island has a feature of its canonical name in the output.
C11_FilterIsComplete ==
    FilterEnded =>
        \A k \in 1..Len(features) :
            Matches(features[k]) =>
                \E i \in 1..Len(out_file) : Canonical(out_file[i]) = Canonical(features[k])

\* C18: no failure leaves the filter script as an uncaught exception.
C18_NoUncaughtException ==
    fpc \notin {"crashed", "rerun_crashed"}

\* C17: an input file that is missing or does not parse never raises: with
\* the film data unreadable the run completes and writes no feature, with
\* the feature collection unreadable the run returns without an exception.
C17_UnreadableInputNeverRaises ==
    fpc \notin {"off", "start"} =>
        /\ ~islands_readable => (fpc = "returned_early" /\ out_file = <<>>)
        /\ (islands_readable /\ ~films_readable) =>
              (fpc \in {"done", "rerun_done"} /\ out_file = <<>> /\ rerun_file = <<>>)

C17_Witness ==
    /\ fpc = "done"
    /\ ~films_readable
    /\ Len(features) = 2
    /\ NameOf(features[1]) = RapaNui
    /\ "area" \notin DOMAIN features[1].properties
    /\ out_file = <<>>

C17_WitnessNoCollection ==
    /\ fpc = "returned_early"
    /\ ~islands_readable
    /\ films = {RapaNui, Tahiti}

(***************************************************************************)
(* Further properties of export_table_data.                                *)
(***************************************************************************)
JsonName(t) == <<t, "_data.json">>

CsvName(t) == <<t, "_data.csv">>

HasTransportError(l) == \E i \in 1..Len(l) : l[i].kind = "exception"

\* The invocation got past its first request: a 200 first response and no
\* transport error afterwards.
ReachedSave(l) ==
    /\ l # <<>>
    /\ l[1].kind = "response" /\ l[1].status = 200
    /\ ~HasTransportError(l)

\* C12 as stated: every fetch writes a JSON and a CSV artifact named after
\* the table, both holding the records the call returns.
C12_AlwaysWritesBothArtifacts ==
    pc = "returned" =>
        /\ \E i \in 1..Len(written) :
              written[i].name = JsonName(table) /\ written[i].content = result
        /\ \E i \in 1..Len(written) :
              written[i].name = CsvName(table) /\ Len(written[i].content) = Len(result)

\* C12 amended: a fetch that gets a 200 first response and meets no transport
\* error writes the JSON artifact of the table with exactly the records it
\* returns and, when it returns at least one record, the CSV artifact with
\* one row per returned record; any other fetch returns [] and writes nothing.
C12_ArtifactsOfACompletedFetch ==
    pc = "returned" =>
        IF ReachedSave(log)
        THEN /\ Len(written) = (IF result = <<>> THEN 1 ELSE 2)
             /\ written[1].name = JsonName(table)
             /\ written[1].content = result
             /\ result # <<>> =>
                   /\ written[2].name = CsvName(table)
                   /\ Len(written[2].content) = Len(result)
                   /\ \A i \in 1..Len(result) :
                         \A f \in DOMAIN result[i].fields :
                             f # "id" => written[2].content[i][f] = result[i].fields[f]
        ELSE written = <<>> /\ result = <<>>

C12_Witness ==
    /\ pc = "returned"
    /\ Len(log) = 2
    /\ ReachedSave(log)
    /\ result = <<RecA, RecB>>
    /\ Len(written) = 2

\* C13: the fixed delay occurs between any two successive page requests.
C13_DelayBetweenRequests ==
    \A i \in 1..(Len(log) - 1) : log[i].slept

\* C16 as stated: a 2xx response never aborts the fetch (its records are
\* accumulated and its token is followed), any other status does.
C16_AbortsExactlyOutside2xx ==
    \A i \in 1..Len(log) :
        log[i].kind = "response" =>
            IF IsSuccessStatus(log[i].status)
            THEN /\ i = Len(log) => Len(all_records) >= Len(log[i].records)
                 /\ (pc = "returned" /\ log[i].offset # None) => i < Len(log)
            ELSE i = Len(log) /\ pc \in {"save", "returned"}

\* C16 amended: the fetch aborts exactly when the status is not 200: a 200
\* response has its records accumulated and its token, if any, followed by
\* another request; a response of any other status, 2xx or not, is the last
\* exchange and none of its body is used.
C16_AbortsExactlyOnNon200 ==
    \A i \in 1..Len(log) :
        log[i].kind = "response" =>
            IF log[i].status = 200
            THEN /\ all_records = ConcatOk(log)
                 /\ (pc = "returned" /\ log[i].offset # None) => i < Len(log)
            ELSE /\ i = Len(log)
                 /\ pc \in {"save", "returned"}
                 /\ all_records = ConcatOk(SubSeq(log, 1, i - 1))
                 /\ offset = (IF i = 1 THEN None ELSE log[i - 1].offset)

C16_Witness ==
    /\ pc = "returned"
    /\ Len(log) = 2
    /\ log[1].status = 200 /\ log[1].records = <<RecB>> /\ log[1].offset \in Tokens
    /\ log[2].kind = "response" /\ log[2].status = 206 /\ log[2].offset \in Tokens
    /\ result = <<RecB>>

\* C20: the CSV has one row per fetched record, in fetch order, and the id
\* column of each row holds that record's identifier.
C20_CsvIdColumnIsRecordId ==
    \A j \in 1..Len(written) :
        written[j].name = CsvName(table) =>
            /\ Len(written[j].content) = Len(all_records)
            /\ \A i \in 1..Len(all_records) :
                  written[j].content[i]["id"] = all_records[i].id

(***************************************************************************)
(* Properties of a whole run (SpecExport).                                 *)
(***************************************************************************)
\* The base of the account with a given id.
BaseOf(id) == CHOOSE b \in Range(bases) : b.id = id

TableNames(tables) == [i \in 1..Len(tables) |-> tables[i].table_name]

\* The position in export_summary['bases'] of the summary of base number b.
SummaryOf(b) ==
    {k \in 1..Len(export_summary.bases) : export_summary.bases[k].base_id = bases[b].id}

\* C14: a transport error while a table is fetched ends that table's fetch
\* only: the run never leaves export_all_data by an exception, and when
\* it has returned, every base in the summary lists every table of the base
\* in schema order, every table was fetched once, and a table whose fetch met
\* a transport error is in the summary with record_count 0.
C14_TransportErrorAbortsOneTableOnly ==
    /\ apc # "crashed"
    /\ apc = "exported" =>
        /\ \A k \in 1..Len(export_summary.bases) :
              TableNames(export_summary.bases[k].tables)
                  = BaseOf(export_summary.bases[k].base_id).tables
        /\ \A f \in 1..Len(fetches) :
              fetches[f].transport_error =>
                  \E k \in SummaryOf(fetches[f].base) :
                      \E i \in 1..Len(export_summary.bases[k].tables) :
                          /\ export_summary.bases[k].tables[i].table_name = fetches[f].table
                          /\ export_summary.bases[k].tables[i].record_count = 0
        /\ Len(fetches) = export_summary.total_tables

\* The first table's fetch met a transport error and the table of the next
\* base was fetched with records.
C14_Witness ==
    /\ apc = "exported"
    /\ Len(fetches) = 2
    /\ fetches[1].transport_error
    /\ ~fetches[2].transport_error
    /\ fetches[1].base # fetches[2].base
    /\ Len(export_summary.bases) = 2
    /\ export_summary.bases[1].tables[1].record_count = 0
    /\ export_summary.bases[2].tables[1].record_count > 0

\* HTTP requests issued so far in the run.
RequestsIssued == http_requests + Len(log)

\* C15: in both classes a token that is missing or does not start with 'pat'
\* makes the constructor raise, and the run issues no HTTP request.
C15_BadTokenRaisesBeforeAnyRequest ==
    (apc # "new" /\ (Falsy(api_key) \/ ~StartsWith(api_key.text, Pat))) =>
        (apc = "config_error" /\ RequestsIssued = 0)

\* C19: during one run of export_all_data no output file is written twice.
C19_EveryFileWrittenAtMostOnce ==
    entry_point = ExportAllData =>
    \A i, j \in 1..Len(file_writes) :
        file_writes[i] = file_writes[j] => i = j

(***************************************************************************)
(* Provenance of the filter's output (SpecFilter).                         *)
(***************************************************************************)
ProvenanceKeys == {"film_relevant", "normalized_name", "original_film_name"}

\* The input feature an output feature was made from: the i-th input
\* feature is the one with geometry i.
SelectedInput(o) == features[o.geometry]

\* C21: every feature written carries film_relevant = true, normalized_name
\* equal to its canonical name and original_film_name equal to the raw name
\* of the input feature it comes from; its geometry and its other properties
\* are those of that input feature.
C21_OutputCarriesProvenance ==
    fpc = "done" =>
        \A i \in 1..Len(out_file) :
            LET o == out_file[i]
                f == SelectedInput(o)
            IN  /\ o.properties["film_relevant"] = TRUE
                /\ o.properties["normalized_name"] = Canonical(f)
                /\ o.properties["original_film_name"] = NameOf(f)
                /\ DOMAIN o.properties = DOMAIN f.properties \cup ProvenanceKeys
                /\ \A p \in DOMAIN f.properties \ ProvenanceKeys :
                      o.properties[p] = f.properties[p]

\* What the code does write: original_film_name is the lower-cased, trimmed
\* name of the input feature; the rest of C21 holds as stated.
C21_HoldsForLoweredName ==
    fpc = "done" =>
        \A i \in 1..Len(out_file) :
            LET o == out_file[i]
                f == SelectedInput(o)
            IN  /\ o.properties["film_relevant"] = TRUE
                /\ o.properties["normalized_name"] = Canonical(f)
                /\ o.properties["original_film_name"] = LoweredName(f)
                /\ DOMAIN o.properties = DOMAIN f.properties \cup ProvenanceKeys
                /\ \A p \in DOMAIN f.properties \ ProvenanceKeys :
                      o.properties[p] = f.properties[p]

(***************************************************************************)
(* Failures after the first page (Spec).                                   *)
(***************************************************************************)
\* The call has returned and its last exchange, number k > 1, was a failure.
FailedOnLaterPage ==
    /\ pc = "returned"
    /\ Len(log) >= 2
    /\ \/ log[Len(log)].kind = "exception"
       \/ log[Len(log)].status # 200

\* The records of the pages before the last exchange.
PagesBeforeLast == ConcatOk(SubSeq(log, 1, Len(log) - 1))

\* written holds the JSON artifact of the table with exactly recs.
JsonHolds(recs) ==
    \E i \in 1..Len(written) :
        written[i].name = JsonName(table) /\ written[i].content = recs

\* written holds the CSV artifact of the table with one row per record of
\* recs, each row with the columns of its record.
CsvHolds(recs) ==
    \E i \in 1..Len(written) :
        /\ written[i].name = CsvName(table)
        /\ Len(written[i].content) = Len(recs)
        /\ \A j \in 1..Len(recs) :
              DOMAIN written[i].content[j] = DOMAIN recs[j].fields \cup {"id"}

\* C23 as stated: after a non-200 status on page k > 1 the records of pages
\* 1..k-1 are written to the JSON and the CSV artifact and returned; after a
\* transport exception the call returns [] and writes no artifact.
C23_FailureKindDecidesOutcome ==
    FailedOnLaterPage =>
        IF log[Len(log)].kind = "exception"
        THEN result = <<>> /\ written = <<>>
        ELSE /\ result = PagesBeforeLast
             /\ JsonHolds(PagesBeforeLast)
             /\ CsvHolds(PagesBeforeLast)

\* C23 amended: as stated, except that the CSV artifact is written only when
\* the pages 1..k-1 held at least one record.
C23_FailureKindDecidesOutcomeCsvIfAny ==
    FailedOnLaterPage =>
        IF log[Len(log)].kind = "exception"
        THEN result = <<>> /\ written = <<>>
        ELSE /\ result = PagesBeforeLast
             /\ JsonHolds(PagesBeforeLast)
             /\ IF PagesBeforeLast # <<>>
                THEN CsvHolds(PagesBeforeLast) /\ Len(written) = 2
                ELSE Len(written) = 1

\* Two pages of one record each, then a 404 on the third request.
C23_Witness ==
    /\ FailedOnLaterPage
    /\ Len(log) = 3
    /\ log[3].kind = "response" /\ log[3].status = 404
    /\ result = <<RecA, RecB>>
    /\ Len(written) = 2

\* Two pages of one record each, then a transport error: nothing is kept.
C23_WitnessException ==
    /\ FailedOnLaterPage
    /\ Len(log) = 3
    /\ log[3].kind = "exception"
    /\ all_records = <<RecA, RecB>>
    /\ result = <<>>

(***************************************************************************)
(* The totals of export_summary (SpecExport).                              *)
(***************************************************************************)
RECURSIVE Flatten(_)
\* The table summaries of a list of base summaries, in order.
Flatten(base_summaries) ==
    IF base_summaries = <<>> THEN <<>>
    ELSE Flatten(SubSeq(base_summaries, 1, Len(base_summaries) - 1))
            \o base_summaries[Len(base_summaries)].tables

\* The table summaries recorded so far: those of the bases already appended
\* and those of the base being processed.
RecordedTables ==
    Flatten(export_summary.bases) \o (IF apc = "tables" THEN base_summary ELSE <<>>)

RECURSIVE SumOfCounts(_)
SumOfCounts(tables) ==
    IF tables = <<>> THEN 0
    ELSE SumOfCounts(SubSeq(tables, 1, Len(tables) - 1)) + tables[Len(tables)].record_count

\* The bases whose schema request in the processing loop failed.
BasesWithoutSchema ==
    {schema_log[i].base : i \in {j \in 1..Len(schema_log) :
                                   schema_log[j].phase = "process" /\ ~schema_log[j].ok}}

\* total_tables and total_records agree with the recorded table summaries,
\* one summary per fetch, and a base whose schema request failed has neither
\* a fetch nor a base summary.
TotalsAgree ==
    /\ export_summary.total_tables = Len(RecordedTables)
    /\ export_summary.total_records = SumOfCounts(RecordedTables)
    /\ Len(fetches) = Len(RecordedTables)
    /\ \A f \in 1..Len(fetches) : RecordedTables[f].table_name = fetches[f].table
    /\ \A b \in BasesWithoutSchema :
          /\ \A f \in 1..Len(fetches) : fetches[f].base # b
          /\ \A k \in 1..Len(export_summary.bases) :
                export_summary.bases[k].base_id # bases[b].id

\* C24 as stated: the totals agree with the recorded summaries at every
\* point, and a table whose fetch failed (by a transport error or by a
\* non-200 status) is counted as one table with record_count 0.
C24_TotalsAndFailedTablesCountZero ==
    apc # "off" =>
        /\ TotalsAgree
        /\ \A f \in 1..Len(fetches) :
              (fetches[f].transport_error \/ fetches[f].stopped_by_status) =>
                  RecordedTables[f].record_count = 0

\* C24 amended: the totals agree at every point; a table whose fetch returned
\* an empty list (transport error, or a non-200 first response) is counted
\* as one table with record_count 0, and a table whose fetch was stopped by
\* a non-200 status on a later page is counted with the records of the pages
\* before it (in these runs every page holds one record, so a fetch stopped
\* at its k-th request is counted with k - 1 records).
C24_TotalsAgreeWithSummaries ==
    apc # "off" =>
        /\ TotalsAgree
        /\ \A f \in 1..Len(fetches) :
              /\ fetches[f].transport_error => RecordedTables[f].record_count = 0
              /\ fetches[f].stopped_by_status =>
                    RecordedTables[f].record_count = fetches[f].requests - 1

\* A run over two bases: the schema request of the first failed in the
\* processing loop, the table of the second was fetched with a transport
\* error and counted with 0 records.
C24_Witness ==
    /\ apc = "exported"
    /\ Len(bases) = 2
    /\ BasesWithoutSchema = {1}
    /\ Len(fetches) = 1
    /\ fetches[1].transport_error
    /\ export_summary.total_tables = 1
    /\ export_summary.total_records = 0

\* A fetch stopped by a non-200 status after two pages is counted with 2.
C24_WitnessPartial ==
    /\ apc = "exported"
    /\ Len(fetches) >= 1
    /\ fetches[1].stopped_by_status
    /\ export_summary.total_records = 2

(***************************************************************************)
(* The steps of run_full_migration (SpecExport).                           *)
(***************************************************************************)
StepOrder ==
    <<"export_all_data", "setup_baserow", "import_to_baserow", "create_fair_care_analysis">>

\* C25: the steps of run_full_migration run in the order export, BaseRow
\* setup, import preparation, FAIR CARE analysis; a step has run only if
\* every earlier step returned True; the migration returns True only if all
\* four did, and False as soon as one did not; setup_baserow returns True
\* whenever the health check answered 200, whatever the user creation did.
C25_StepsInOrderAndGated ==
    entry_point = RunFullMigration =>
        /\ Len(steps) <= Len(StepOrder)
        /\ \A i \in 1..Len(steps) : steps[i].step = StepOrder[i]
        /\ \A i \in 1..Len(steps) : \A j \in 1..(i - 1) : steps[j].returned
        /\ migration_result = "True" =>
              (Len(steps) = Len(StepOrder) /\ \A i \in 1..Len(steps) : steps[i].returned)
        /\ migration_result = "False" =>
              (steps # <<>> /\ ~steps[Len(steps)].returned)
        /\ \A i \in 1..Len(steps) :
              steps[i].step = "setup_baserow" =>
                  (steps[i].returned <=> steps[i].health = "200")

\* A migration that returned True although the user creation request raised.
C25_Witness ==
    /\ entry_point = RunFullMigration
    /\ migration_result = "True"
    /\ Len(steps) = 4
    /\ steps[2].health = "200"
    /\ steps[2].user = "exception"

\* A migration stopped after a failed export: no later step has run.
C25_WitnessStopped ==
    /\ entry_point = RunFullMigration
    /\ migration_result = "False"
    /\ Len(steps) = 1
    /\ ~steps[1].returned

(***************************************************************************)
(* simplify_coordinates (SpecSimplify).                                    *)
(***************************************************************************)
\* C30: simplify_coordinates returns at most 50 points for a list of any
\* length, returns a list of fewer than 3 points unchanged, and its result
\* is a subsequence of the input that starts with the input's first point.
C30_AtMostFiftyPoints ==
    spc = "done" =>
        /\ Len(simplified) <= KeptPoints
        /\ Len(coords) < 3 => simplified = coords
        /\ \A k \in 1..Len(simplified) : simplified[k] \in 1..Len(coords)
        /\ \A k \in 1..(Len(simplified) - 1) : simplified[k] < simplified[k + 1]
        /\ coords # <<>> => (simplified # <<>> /\ simplified[1] = coords[1])

(***************************************************************************)
(* normalize_island_name of create-film-islands.py (SpecVariations).       *)
(***************************************************************************)
\* C28: normalize_island_name maps every standard name of the variations
\* table, and every variant listed under it, to that standard name.
C28_VariantsMapToTheirStandard ==
    npc = "done" =>
        \A k \in 1..Len(variations) :
            ListsName(variations[k], Strip(Lower(raw_name))) =>
                normalized = variations[k].standard

\* What does hold: a listed name is mapped to the standard name of the
\* first row that lists it, any other name to itself lower-cased and trimmed.
C28_MapsToFirstListingRow ==
    npc = "done" =>
        LET lowered == Strip(Lower(raw_name))
        IN  /\ (\A k \in 1..Len(variations) : ~ListsName(variations[k], lowered)) =>
                  normalized = lowered
            /\ \A k \in 1..Len(variations) :
                  (/\ ListsName(variations[k], lowered)
                   /\ \A j \in 1..(k - 1) : ~ListsName(variations[j], lowered)) =>
                      normalized = variations[k].standard

(***************************************************************************)
(* create_film_islands_geojson (SpecFilmIslands).                          *)
(***************************************************************************)
CfiWritten == fpc \in {"cfi_done", "cfi_crashed_after_write"}

\* The feature's name, lower-cased and trimmed.
CfiName(f) == Strip(Lower(NameOf(f)))

\* The feature is mentioned in the film data.
CfiMentioned(f) ==
    \E t \in get_film_islands(films) :
        normalize_by_variations(t) = normalize_by_variations(NameOf(f))

\* The feature's name equals a key-island name, case-insensitively.
CfiIsKeyIsland(f) ==
    \E k \in 1..Len(key_islands) : Lower(key_islands[k]) = Lower(NameOf(f))

\* C29: the output holds, in input order, only features that are mentioned
\* in the film data or whose name equals a key-island name
\* case-insensitively; no feature with an empty name is output, and
\* mentioned_in_films is true exactly for the features mentioned in films.
C29_OnlyMentionedOrKeyIslands ==
    CfiWritten =>
        /\ \A i \in 1..(Len(out_file) - 1) : out_file[i].geometry < out_file[i + 1].geometry
        /\ \A i \in 1..Len(out_file) :
              LET f == SelectedInput(out_file[i])
              IN  /\ CfiMentioned(f) \/ CfiIsKeyIsland(f)
                  /\ CfiName(f) # <<>>
                  /\ out_file[i].properties["mentioned_in_films"] <=> CfiMentioned(f)

\* What does hold: the output is in input order, every output feature is
\* mentioned in films or has a name that contains, or is contained in, a
\* key-island name, and mentioned_in_films is true exactly for the former.
C29_HoldsForSubstringMatch ==
    CfiWritten =>
        /\ \A i \in 1..(Len(out_file) - 1) : out_file[i].geometry < out_file[i + 1].geometry
        /\ \A i \in 1..Len(out_file) :
              LET f == SelectedInput(out_file[i])
              IN  /\ \/ CfiMentioned(f)
                     \/ \E k \in 1..Len(key_islands) :
                           \/ Contains(CfiName(f), Lower(key_islands[k]))
                           \/ Contains(Lower(key_islands[k]), CfiName(f))
                  /\ out_file[i].properties["mentioned_in_films"] <=> CfiMentioned(f)

(***************************************************************************)
(* filter_major_islands (SpecMajor).                                       *)
(***************************************************************************)
FmiWritten == fpc \in {"fmi_done", "fmi_crashed_after_write"}

\* The feature's area, a missing area counting as 0.
FmiArea(f) == IF "area" \in DOMAIN f.properties THEN f.properties["area"] ELSE 0

\* The lower-cased name contains one of the known-island names.
FmiKnownName(f) ==
    \E k \in 1..Len(major_island_names) : Contains(Lower(NameOf(f)), major_island_names[k])

\* The positions of the input features that are in the output.
FmiOutputPositions == {out_file[i].geometry : i \in 1..Len(out_file)}

\* C26: the output holds exactly the input features with area greater than
\* 1.0 or a lower-cased name containing a known-island name, each at most
\* once and unchanged, by area largest first, equal areas in input order.
C26_MajorIslandsByAreaStable ==
    FmiWritten =>
        /\ FmiOutputPositions =
               {p \in 1..Len(features) :
                    FmiArea(features[p]) > MajorArea \/ FmiKnownName(features[p])}
        /\ Cardinality(FmiOutputPositions) = Len(out_file)
        /\ \A i \in 1..Len(out_file) : out_file[i] = SelectedInput(out_file[i])
        /\ \A i \in 1..(Len(out_file) - 1) :
              \/ FmiArea(out_file[i]) > FmiArea(out_file[i + 1])
              \/ /\ FmiArea(out_file[i]) = FmiArea(out_file[i + 1])
                 /\ out_file[i].geometry < out_file[i + 1].geometry

\* A run whose sort moved the second input feature in front of the first.
C26_Witness ==
    /\ FmiWritten
    /\ Len(features) = 2
    /\ Len(out_file) = 2
    /\ out_file[1].geometry = 2

\* A run that left out a feature of area exactly 1.0 and kept another at
\* its side with the same area for its name.
C26_WitnessThreshold ==
    /\ FmiWritten
    /\ Len(features) = 2
    /\ Len(out_file) = 1
    /\ FmiArea(features[1]) = MajorArea
    /\ FmiArea(features[2]) = MajorArea

(***************************************************************************)
(* extract_pacific_islands (SpecExtract).                                  *)
(***************************************************************************)
\* The rings of a Polygon or MultiPolygon geometry have at least n
\* coordinate pairs in some ring.
HasRingOfAtLeast(geometry, n) ==
    IF geometry.type = "Polygon"
    THEN \E r \in 1..Len(geometry.coordinates) : Len(geometry.coordinates[r]) >= n
    ELSE \E q \in 1..Len(geometry.coordinates) :
            \E r \in 1..Len(geometry.coordinates[q]) : Len(geometry.coordinates[q][r]) >= n

\* C22: every feature written by extract_pacific_islands has a non-negative
\* area and a geometry with at least one ring of at least 3 coordinate pairs.
C22_WrittenAreaAndRingsValid ==
    fpc = "epi_done" =>
        \A i \in 1..Len(out_file) :
            /\ out_file[i].properties.area >= 0
            /\ HasRingOfAtLeast(out_file[i].geometry, 3)

\* What does hold: the area written is the input's IslandArea, or 0 without
\* one, and the first ring has a coordinate pair.
C22_HoldsAreaCopiedRingNonEmpty ==
    fpc = "epi_done" =>
        \A i \in 1..Len(out_file) :
            /\ \E p \in 1..Len(features) :
                  /\ features[p].geometry = out_file[i].geometry
                  /\ out_file[i].properties.area =
                        (IF "IslandArea" \in DOMAIN features[p].properties
                         THEN features[p].properties["IslandArea"] ELSE 0)
            /\ HasRingOfAtLeast(out_file[i].geometry, 1)

RegionNames == {"Melanesia", "Hawaii", "Polynesia", "Micronesia", "Pacific"}

\* C27: get_island_region is only called on a feature accepted by
\* is_pacific_island, so only with a Polygon or MultiPolygon whose first ring
\* is non-empty; the centre computation never divides by zero and every
\* output feature's region is a region name, never Unknown.
C27_RegionOnlyForAcceptedFeatures ==
    /\ \A c \in 1..Len(region_calls) :
          /\ is_pacific_island(features[region_calls[c].position])
          /\ region_calls[c].type \in {"Polygon", "MultiPolygon"}
          /\ region_calls[c].ring_len > 0
          /\ region_calls[c].region \in RegionNames
    /\ \A i \in 1..Len(out_file) : out_file[i].properties.region \in RegionNames

\* A run that called get_island_region twice, next to a feature it rejected
\* or before one that ended the run.
C27_Witness ==
    /\ fpc = "epi_done"
    /\ Len(features) = 2
    /\ Len(region_calls) = 2
    /\ out_file[1].properties.region # out_file[2].properties.region

\* A run that skipped a feature without calling get_island_region on it.
C27_WitnessRejected ==
    /\ fpc = "epi_done"
    /\ Len(features) = 2
    /\ Len(region_calls) = 1
    /\ region_calls[1].position = 2
    /\ ~IsEmptyDict(features[1].geometry)
    /\ features[1].geometry.type = "Point"

====
